---- MODULE Spec2Model ----
(***************************************************************************)
(* A model of ttypr's typing engine (src/src/app.rs): the three parallel   *)
(* buffers charset / input_chars / ids, the line-length queue lines_len,   *)
(* the three line generators, the option switcher, and the main loop that  *)
(* processes a keystroke (src/src/main.rs).                                *)
(*                                                                         *)
(* A String is modelled as the sequence of its characters, a Vec<String>   *)
(* of tokens as a sequence of such sequences.  VecDeque indices are        *)
(* 0-based in the source and 1-based here.                                 *)
(*                                                                         *)
(* Rendering state (needs_redraw, needs_clear, config.show_notifications   *)
(* and its 'n' key) is read only by ui.rs and is left out.  The calls to   *)
(* notifications.show_*() made by the key handlers write only the          *)
(* Notifications struct, which the engine never reads; the struct is       *)
(* modelled on its own (SpecNotif), as its unit tests use it, and so is    *)
(* get_sorted_mistakes of src/src/utils.rs (SpecSort).                     *)
(***************************************************************************)
EXTENDS Integers, Sequences, FiniteSets, TLC

VARIABLES
    pc,                     \* "new" | "setup_err" | "run" | "exited" | "panic" |
                            \* "gen" | "loop" | "returned" | "notif" | "sort"
    running,                \* App.running
    typed,                  \* App.typed
    charset,                \* App.charset
    input_chars,            \* App.input_chars
    ids,                    \* App.ids
    line_len,               \* App.line_len
    lines_len,              \* App.lines_len
    current_mode,           \* App.current_mode
    current_typing_option,  \* App.current_typing_option
    words,                  \* App.words
    text,                   \* App.text
    config,                 \* App.config
    show_help,              \* App.show_help
    show_mistyped,          \* App.show_mistyped
    first_text_gen_len,     \* App.first_text_gen_len
    disk,                   \* the files under the config directory
    one_line,               \* the line returned by the last generator call
    gen_call,               \* which generator returned one_line
    text_entry,             \* history: the cursor config.skip_len had when the
                            \* Text option was entered, while nothing has been
                            \* typed since
    notifications,          \* a Notifications object on its own, as the unit
                            \* tests of Notifications build it
    now,                    \* the monotonic clock (Instant::now), in seconds
    on_tick_ret,            \* what the last notifications.on_tick() returned
                            \* since the last show_* call
    sorted_mistakes         \* what the last get_sorted_mistakes call returned

vars == <<pc, running, typed, charset, input_chars, ids, line_len, lines_len,
          current_mode, current_typing_option, words, text, config, show_help,
          show_mistyped, first_text_gen_len, disk, one_line,
          gen_call, text_entry, notifications, now, on_tick_ret,
          sorted_mistakes>>

buffers == <<charset, input_chars, ids, lines_len>>

\* the variables that only the calls of single functions change
harness == <<notifications, now, on_tick_ret, sorted_mistakes>>

-----------------------------------------------------------------------------
(* Bounds *)

\* The line widths line_len of the typing sessions explored (the program ships
\* 50 and its tests use 5, 10, 20 and 50): at width 2 an Ascii fill already
\* has 64 contents.
LineLens == {1, 2}

\* Largest line width, token length and corpus length given to the line
\* generators when they are checked on their own.
MaxGenLineLen == 4
MaxTokenLen == 3
MaxCorpusLen == 3

\* Largest total of the counts in the mistake ledger.
MaxMistakes == 2

-----------------------------------------------------------------------------
(* Strings *)

\* A sample of the symbols of ASCII_CHARSET.
ASCII_CHARSET == {"a", "b"}

\* The characters a KeyCode::Char event can carry.
KeyChars == {"a", "b"}

\* slice.join(" ")
RECURSIVE Join(_)
Join(ts) ==
    IF ts = <<>> THEN <<>>
    ELSE IF Len(ts) = 1 THEN ts[1]
    ELSE ts[1] \o <<" ">> \o Join(Tail(ts))

\* str::split_whitespace().collect(): the maximal runs of non-space characters
RECURSIVE SplitFrom(_, _, _)
SplitFrom(s, cur, acc) ==
    IF s = <<>> THEN (IF cur = <<>> THEN acc ELSE Append(acc, cur))
    ELSE IF Head(s) = " "
         THEN SplitFrom(Tail(s), <<>>, IF cur = <<>> THEN acc ELSE Append(acc, cur))
         ELSE SplitFrom(Tail(s), Append(cur, Head(s)), acc)

SplitWhitespace(s) == SplitFrom(s, <<>>, <<>>)

RECURSIVE Sum(_)
Sum(s) == IF s = <<>> THEN 0 ELSE Head(s) + Sum(Tail(s))

\* the elements of s after the first n (n pop_front calls; pop_front on an
\* empty deque does nothing)
DropFront(s, n) == IF n >= Len(s) THEN <<>> ELSE SubSeq(s, n + 1, Len(s))

Zeros(n) == [i \in 1..n |-> 0]


\* HashMap<String, usize>: a function from the keys present to their counts
EmptyMap == [k \in {} |-> 0]

RECURSIVE SumOver(_, _)
SumOver(m, keys) ==
    IF keys = {} THEN 0
    ELSE LET k == CHOOSE x \in keys : TRUE
         IN m[k] + SumOver(m, keys \ {k})

LedgerTotal(m) == SumOver(m, DOMAIN m)

-----------------------------------------------------------------------------
(* Config and the files of the config directory *)

None == [some |-> FALSE, bytes |-> <<>>]

\* text_entry when the Text option has not just been entered
NoEntry == [some |-> FALSE, skip_len |-> 0]

DefaultConfig ==
    [first_boot |-> TRUE,
     mistyped_chars |-> EmptyMap,
     save_mistyped |-> TRUE,
     skip_len |-> 0,
     use_default_word_set |-> FALSE,
     use_default_text_set |-> FALSE,
     last_text_txt_hash |-> None]

\* A sample of the built-in word list: like the real one it is not empty and
\* none of its words is wider than a line.
default_words == << <<"a">>, <<"b">> >>

\* A sample of the built-in text, with the same two properties.
default_text == << <<"a">>, <<"b">>, <<"b">> >>

\* load_items_from_file(...).unwrap_or_default()
ReadItems(file) == IF file.exists THEN SplitWhitespace(file.content) ELSE <<>>

\* calculate_text_txt_hash(...).ok(): equal digests for equal bytes only
CalculateTextTxtHash(file) ==
    IF file.exists THEN [some |-> TRUE, bytes |-> <<"sha256">> \o file.content]
    ELSE None

\* load_config(...).unwrap_or_else(|_| Config::default())
LoadConfig(d) == IF d.config.state = "ok" THEN d.config.value ELSE DefaultConfig

\* save_config: the file then holds cfg, unless the write fails
SaveConfig(d, cfg) ==
    IF d.home /\ d.writable
    THEN [d EXCEPT !.config = [state |-> "ok", value |-> cfg]] ELSE d

-----------------------------------------------------------------------------
(* The line generators *)

\* (mutant) the loop runs from 1, one character short
GenOneLineOfAscii_OneShort(n) ==
    LET RECURSIVE Loop(_, _)
        Loop(line_of_ascii, k) ==
            IF k <= 0 THEN {line_of_ascii}
            ELSE UNION {Loop(Append(line_of_ascii, c), k - 1) : c \in ASCII_CHARSET}
    IN Loop(<<>>, n - 1)

\* gen_one_line_of_ascii: every line the random draws can produce
RECURSIVE AsciiLoop(_, _)
AsciiLoop(line_of_ascii, k) ==
    IF k = 0 THEN {line_of_ascii}
    ELSE UNION {AsciiLoop(Append(line_of_ascii, c), k - 1) : c \in ASCII_CHARSET}

GenOneLineOfAscii(n) == AsciiLoop(<<>>, n)

\* (mutant) the word that overflowed is not popped
GenOneLineOfWords_NoPop(ws, n) ==
    LET RECURSIVE Loop(_)
        Loop(line_of_words) ==
            UNION { LET pushed == Append(line_of_words, ws[i])
                    IN IF Len(Join(pushed)) > n THEN {Join(pushed)} ELSE Loop(pushed)
                    : i \in 1..Len(ws) }
    IN Loop(<<>>)

\* gen_one_line_of_words: every line the random draws can produce.
\* ws is not empty (random_range(0..0) panics).
RECURSIVE WordsLoop(_, _, _)
WordsLoop(ws, n, line_of_words) ==
    UNION { LET pushed == Append(line_of_words, ws[i])
            IN IF Len(Join(pushed)) > n
               THEN {Join(line_of_words)}
               ELSE WordsLoop(ws, n, pushed)
            : i \in 1..Len(ws) }

GenOneLineOfWords(ws, n) == WordsLoop(ws, n, <<>>)

\* (mutant) the cursor is never wrapped to 0: the token is text[cursor mod len]
GenOneLineOfText_NoReset(txt, skip, n) ==
    LET RECURSIVE Loop(_, _)
        Loop(line_of_text, s0) ==
            IF txt = <<>>
            THEN [line |-> Join(line_of_text), skip_len |-> s0, ok |-> FALSE]
            ELSE LET pushed == Append(line_of_text, txt[(s0 % Len(txt)) + 1])
                 IN IF Len(Join(pushed)) > n
                    THEN [line |-> Join(line_of_text), skip_len |-> s0, ok |-> TRUE]
                    ELSE Loop(pushed, s0 + 1)
    IN Loop(<<>>, skip)

\* (mutant) the cursor is not moved back over the token that did not fit
GenOneLineOfText_NoGiveBack(txt, skip, n) ==
    LET RECURSIVE Loop(_, _)
        Loop(line_of_text, cur) ==
            LET s0 == IF cur = Len(txt) THEN 0 ELSE cur
            IN IF s0 >= Len(txt)
               THEN [line |-> Join(line_of_text), skip_len |-> s0, ok |-> FALSE]
               ELSE LET pushed == Append(line_of_text, txt[s0 + 1])
                    IN IF Len(Join(pushed)) > n
                       THEN [line |-> Join(line_of_text), skip_len |-> s0 + 1,
                             ok |-> TRUE]
                       ELSE Loop(pushed, s0 + 1)
    IN Loop(<<>>, skip)

\* (mutant) the width of the line is counted without the separating spaces
GenOneLineOfText_CountsNoSpaces(txt, skip, n) ==
    LET RECURSIVE Loop(_, _)
        Loop(line_of_text, cur) ==
            LET s0 == IF cur = Len(txt) THEN 0 ELSE cur
            IN IF s0 >= Len(txt)
               THEN [line |-> Join(line_of_text), skip_len |-> s0, ok |-> FALSE]
               ELSE LET pushed == Append(line_of_text, txt[s0 + 1])
                    IN IF Len(Join(pushed)) - (Len(pushed) - 1) > n
                       THEN [line |-> Join(line_of_text), skip_len |-> s0,
                             ok |-> TRUE]
                       ELSE Loop(pushed, s0 + 1)
    IN Loop(<<>>, skip)

\* (mutant) the line ends at the end of the corpus instead of going on with
\* its first token
GenOneLineOfText_StopsAtEnd(txt, skip, n) ==
    LET RECURSIVE Loop(_, _)
        Loop(line_of_text, cur) ==
            IF cur = Len(txt) /\ line_of_text # <<>>
            THEN [line |-> Join(line_of_text), skip_len |-> 0, ok |-> TRUE]
            ELSE LET s0 == IF cur = Len(txt) THEN 0 ELSE cur
                 IN IF s0 >= Len(txt)
                    THEN [line |-> Join(line_of_text), skip_len |-> s0, ok |-> FALSE]
                    ELSE LET pushed == Append(line_of_text, txt[s0 + 1])
                         IN IF Len(Join(pushed)) > n
                            THEN [line |-> Join(line_of_text), skip_len |-> s0,
                                  ok |-> TRUE]
                            ELSE Loop(pushed, s0 + 1)
    IN Loop(<<>>, skip)

\* gen_one_line_of_text: the line and the cursor after the call; ok is FALSE
\* when text[skip_len] is out of bounds (a panic).
RECURSIVE TextLoop(_, _, _, _)
TextLoop(txt, n, line_of_text, skip) ==
    LET s0 == IF skip = Len(txt) THEN 0 ELSE skip
    IN IF s0 >= Len(txt)
       THEN [line |-> Join(line_of_text), skip_len |-> s0, ok |-> FALSE]
       ELSE LET pushed == Append(line_of_text, txt[s0 + 1])
            IN IF Len(Join(pushed)) > n
               THEN [line |-> Join(line_of_text), skip_len |-> (s0 + 1) - 1, ok |-> TRUE]
               ELSE TextLoop(txt, n, pushed, s0 + 1)

GenOneLineOfText(txt, skip, n) == TextLoop(txt, n, <<>>, skip)


-----------------------------------------------------------------------------
(* The typing buffers *)

Buf == [charset |-> charset, input_chars |-> input_chars, ids |-> ids,
        lines_len |-> lines_len]

SetBuf(b) ==
    /\ charset' = b.charset
    /\ input_chars' = b.input_chars
    /\ ids' = b.ids
    /\ lines_len' = b.lines_len

\* (mutant) the typed characters survive the clearing
ClearTypingBuffers_KeepsInput(b) ==
    [charset |-> <<>>, input_chars |-> b.input_chars, ids |-> <<>>,
     lines_len |-> <<>>]

\* clear_typing_buffers
ClearTypingBuffers(b) ==
    [charset |-> <<>>, input_chars |-> <<>>, ids |-> <<>>, lines_len |-> <<>>]

\* (mutant) no id is pushed for the characters of the line
PopulateCharsetFromLine_NoIds(b, line) ==
    [b EXCEPT !.lines_len = Append(@, Len(line)), !.charset = @ \o line]

\* populate_charset_from_line
PopulateCharsetFromLine(b, line) ==
    [b EXCEPT !.lines_len = Append(@, Len(line)),
              !.charset = @ \o line,
              !.ids = @ \o Zeros(Len(line))]

\* three calls of gen_one_line_of_text in a row, each from the cursor the
\* previous one left: the three lines, the cursor afterwards, and the number
\* of whitespace-separated tokens of the three lines
GenThreeLinesOfText(txt, skip, n) ==
    LET g1 == GenOneLineOfText(txt, skip, n)
        g2 == GenOneLineOfText(txt, g1.skip_len, n)
        g3 == GenOneLineOfText(txt, g2.skip_len, n)
    IN [lines |-> <<g1.line, g2.line, g3.line>>,
        skip_len |-> g3.skip_len,
        tokens |-> Len(SplitWhitespace(g1.line)) + Len(SplitWhitespace(g2.line))
                     + Len(SplitWhitespace(g3.line)),
        ok |-> g1.ok /\ g2.ok /\ g3.ok]

PopulateThree(b, ls) ==
    PopulateCharsetFromLine(
        PopulateCharsetFromLine(PopulateCharsetFromLine(b, ls[1]), ls[2]), ls[3])

\* the cursor after the lookahead of the buffered lines is given back
\* (on_exit and the Text arm of switch_typing_option)
SubtractLookahead(skip, lookahead) ==
    IF skip >= lookahead THEN skip - lookahead ELSE 0

\* (mutant) the typed character is compared with the one before its position
UpdateIdField_OffByOne(b, cfg) ==
    LET pos == Len(b.input_chars)
        expected == b.charset[IF pos > 1 THEN pos - 1 ELSE pos]
    IN [ids |-> [b.ids EXCEPT ![pos] = IF b.input_chars[pos] = expected THEN 1 ELSE 2],
        mistyped_chars |-> cfg.mistyped_chars]

\* (mutant) the mistake is counted under the typed character
UpdateIdField_KeyTyped(b, cfg) ==
    LET pos == Len(b.input_chars)
        expected == b.charset[pos]
        got == b.input_chars[pos]
    IN IF got = expected
       THEN [ids |-> [b.ids EXCEPT ![pos] = 1], mistyped_chars |-> cfg.mistyped_chars]
       ELSE [ids |-> [b.ids EXCEPT ![pos] = 2],
             mistyped_chars |->
                 IF cfg.save_mistyped
                 THEN IF got \in DOMAIN cfg.mistyped_chars
                      THEN [cfg.mistyped_chars EXCEPT ![got] = @ + 1]
                      ELSE cfg.mistyped_chars @@ (got :> 1)
                 ELSE cfg.mistyped_chars]

\* (mutant) the mistake is counted whether or not save_mistyped is set
UpdateIdField_AlwaysCounts(b, cfg) ==
    LET pos == Len(b.input_chars)
        expected == b.charset[pos]
    IN IF b.input_chars[pos] = expected
       THEN [ids |-> [b.ids EXCEPT ![pos] = 1], mistyped_chars |-> cfg.mistyped_chars]
       ELSE [ids |-> [b.ids EXCEPT ![pos] = 2],
             mistyped_chars |->
                 IF expected \in DOMAIN cfg.mistyped_chars
                 THEN [cfg.mistyped_chars EXCEPT ![expected] = @ + 1]
                 ELSE cfg.mistyped_chars @@ (expected :> 1)]

\* update_id_field: ids and the mistake ledger after the last typed character
\* has been compared (the caller has checked the indices)
UpdateIdField(b, cfg) ==
    LET pos == Len(b.input_chars)
        expected == b.charset[pos]
    IN IF b.input_chars[pos] = expected
       THEN [ids |-> [b.ids EXCEPT ![pos] = 1], mistyped_chars |-> cfg.mistyped_chars]
       ELSE [ids |-> [b.ids EXCEPT ![pos] = 2],
             mistyped_chars |->
                 IF cfg.save_mistyped
                 THEN IF expected \in DOMAIN cfg.mistyped_chars
                      THEN [cfg.mistyped_chars EXCEPT ![expected] = @ + 1]
                      ELSE cfg.mistyped_chars @@ (expected :> 1)
                 ELSE cfg.mistyped_chars]

\* update_lines reached the end of the second line
EndOfSecondLine(b) == Len(b.input_chars) = b.lines_len[1] + b.lines_len[2]

\* (mutant) the second line's length is popped from the buffers
RetireAndRefill_PopSecond(b, line) ==
    [charset |-> DropFront(b.charset, b.lines_len[2]) \o line,
     input_chars |-> DropFront(b.input_chars, b.lines_len[2]),
     ids |-> DropFront(b.ids, b.lines_len[2]) \o Zeros(Len(line)),
     lines_len |-> Append(Tail(b.lines_len), Len(line))]

\* (mutant) the head of lines_len is not popped
RetireAndRefill_KeepHead(b, line) ==
    [charset |-> DropFront(b.charset, b.lines_len[1]) \o line,
     input_chars |-> DropFront(b.input_chars, b.lines_len[1]),
     ids |-> DropFront(b.ids, b.lines_len[1]) \o Zeros(Len(line)),
     lines_len |-> Append(b.lines_len, Len(line))]

\* (mutant) the first line's ids are not popped
RetireAndRefill_KeepIds(b, line) ==
    [charset |-> DropFront(b.charset, b.lines_len[1]) \o line,
     input_chars |-> DropFront(b.input_chars, b.lines_len[1]),
     ids |-> b.ids \o Zeros(Len(line)),
     lines_len |-> Append(Tail(b.lines_len), Len(line))]

\* (mutant) the typed characters of the first line are not popped
RetireAndRefill_KeepInput(b, line) ==
    [charset |-> DropFront(b.charset, b.lines_len[1]) \o line,
     input_chars |-> b.input_chars,
     ids |-> DropFront(b.ids, b.lines_len[1]) \o Zeros(Len(line)),
     lines_len |-> Append(Tail(b.lines_len), Len(line))]

\* (mutant) the retired line is popped and no new line is pushed
RetireAndRefill_NoRefill(b, line) ==
    [charset |-> DropFront(b.charset, b.lines_len[1]),
     input_chars |-> DropFront(b.input_chars, b.lines_len[1]),
     ids |-> DropFront(b.ids, b.lines_len[1]),
     lines_len |-> Tail(b.lines_len)]

\* update_lines, the branch taken at the end of the second line, with the
\* generated line given
RetireAndRefill(b, line) ==
    [charset |-> DropFront(b.charset, b.lines_len[1]) \o line,
     input_chars |-> DropFront(b.input_chars, b.lines_len[1]),
     ids |-> DropFront(b.ids, b.lines_len[1]) \o Zeros(Len(line)),
     lines_len |-> Append(Tail(b.lines_len), Len(line))]

\* the line update_lines asks the active generator for: each possible line with
\* the cursor it leaves
GenLineFor(option) ==
    CASE option = "Ascii" ->
            {[line |-> l, skip_len |-> config.skip_len, ok |-> TRUE]
                : l \in GenOneLineOfAscii(line_len)}
      [] option = "Words" ->
            IF words = <<>>
            THEN {[line |-> <<>>, skip_len |-> config.skip_len, ok |-> FALSE]}
            ELSE {[line |-> l, skip_len |-> config.skip_len, ok |-> TRUE]
                    : l \in GenOneLineOfWords(words, line_len)}
      [] option = "Text" -> {GenOneLineOfText(text, config.skip_len, line_len)}


-----------------------------------------------------------------------------
(* get_sorted_mistakes *)

\* the characters a ledger of the harness may hold, and their order as strings
LedgerKeys == {"a", "b", "c", "d"}

CharOrd == [c \in LedgerKeys |->
              CASE c = "a" -> 97 [] c = "b" -> 98 [] c = "c" -> 99 [] c = "d" -> 100]

\* no call of get_sorted_mistakes has returned
NoResult == [called |-> FALSE, list |-> <<>>]

\* map.iter().collect(): the entries <<key, count>> in any order
Iterations(map) ==
    LET n == Cardinality(DOMAIN map)
    IN {[i \in 1..n |-> <<f[i], map[f[i]]>>] :
           f \in {g \in [1..n -> DOMAIN map] :
                     \A i, j \in 1..n : i # j => g[i] # g[j]}}

\* (mutant) entries are compared by count only
ComesBefore_CountOnly(x, y) == x[2] > y[2]

\* the comparator of sort_by says Less: b.1.cmp(a.1).then_with(|| a.0.cmp(b.0))
ComesBefore(x, y) ==
    \/ x[2] > y[2]
    \/ x[2] = y[2] /\ CharOrd[x[1]] < CharOrd[y[1]]

\* x put into the sorted sequence s behind every entry it does not come before
RECURSIVE InsertSorted(_, _)
InsertSorted(s, x) ==
    IF s = <<>> THEN <<x>>
    ELSE IF ComesBefore(x, Head(s)) THEN <<x>> \o s
    ELSE <<Head(s)>> \o InsertSorted(Tail(s), x)

\* sort_by: a stable sort
RECURSIVE SortBy(_)
SortBy(s) ==
    IF s = <<>> THEN <<>>
    ELSE InsertSorted(SortBy(SubSeq(s, 1, Len(s) - 1)), s[Len(s)])

-----------------------------------------------------------------------------
(* Notifications *)

\* Duration::from_secs(2) of on_tick
NotifTimeout == 2

\* time_count: None
NoInstant == [some |-> FALSE, at |-> 0]

\* Notifications::new
NotificationsNew ==
    [mode |-> FALSE, option |-> FALSE, toggle |-> FALSE, mistyped |-> FALSE,
     clear_mistyped |-> FALSE, time_count |-> NoInstant]

\* hide_all
HideAll(n) ==
    [mode |-> FALSE, option |-> FALSE, toggle |-> FALSE, mistyped |-> FALSE,
     clear_mistyped |-> FALSE, time_count |-> NoInstant]

\* trigger, called at time t
Trigger(n, t) == [n EXCEPT !.time_count = [some |-> TRUE, at |-> t]]

\* show_mode, show_option, show_toggle, show_mistyped, show_clear_mistyped
ShowMode(n, t) == Trigger([n EXCEPT !.mode = TRUE], t)

ShowOption(n, t) == Trigger([n EXCEPT !.option = TRUE], t)

ShowToggle(n, t) == Trigger([n EXCEPT !.toggle = TRUE], t)

ShowMistyped(n, t) == Trigger([n EXCEPT !.mistyped = TRUE], t)

ShowClearMistyped(n, t) == Trigger([n EXCEPT !.clear_mistyped = TRUE], t)

\* (mutant) the notifications are hidden as soon as 2 seconds have elapsed
NotificationsOnTick_AtTwo(n, t) ==
    IF n.time_count.some /\ t - n.time_count.at >= NotifTimeout
    THEN [notifications |-> HideAll(n), ret |-> TRUE]
    ELSE [notifications |-> n, ret |-> FALSE]

\* Notifications::on_tick, called at time t: the object afterwards and the
\* value returned
NotificationsOnTick(n, t) ==
    IF n.time_count.some /\ t - n.time_count.at > NotifTimeout
    THEN [notifications |-> HideAll(n), ret |-> TRUE]
    ELSE [notifications |-> n, ret |-> FALSE]

-----------------------------------------------------------------------------
(* Start-up: App::new, then App::setup *)

Absent == [exists |-> FALSE, content |-> <<>>]

\* a token wider than every line width of LineLens
LongToken == <<"c", "c", "c">>

\* words.txt: "a ab ccc"
WordsTxt == [exists |-> TRUE, content |-> <<"a", " ", "a", "b", " ">> \o LongToken]

\* text.txt: "ab a"
TextTxt == [exists |-> TRUE, content |-> <<"a", "b", " ", "a">>]

\* a config file left by an earlier session that read TextTxt
StoredConfig ==
    [DefaultConfig EXCEPT !.first_boot = FALSE,
                          !.skip_len = 1,
                          !.last_text_txt_hash = CalculateTextTxtHash(TextTxt)]

\* the config directory: a first run with nothing in it, or a later run with
\* a config file, a word list and a text
Disks ==
    { [config |-> [state |-> "missing", value |-> DefaultConfig],
       words_txt |-> Absent, text_txt |-> Absent, writable |-> TRUE,
               home |-> TRUE],
      [config |-> [state |-> "ok", value |-> StoredConfig],
       words_txt |-> WordsTxt, text_txt |-> TextTxt, writable |-> TRUE,
               home |-> TRUE] }

\* App::new()
New ==
    /\ pc = "new"
    /\ running = TRUE
    /\ typed = FALSE
    /\ charset = <<>>
    /\ input_chars = <<>>
    /\ ids = <<>>
    /\ lines_len = <<>>
    /\ current_mode = "Menu"
    /\ current_typing_option = "Ascii"
    /\ words = <<>>
    /\ text = <<>>
    /\ config = DefaultConfig
    /\ show_help = FALSE
    /\ show_mistyped = FALSE
    /\ first_text_gen_len = 0
    /\ one_line = <<>>
    /\ gen_call = "none"
    /\ text_entry = NoEntry
    /\ notifications = NotificationsNew
    /\ now = 0
    /\ on_tick_ret = "none"
    /\ sorted_mistakes = NoResult

Init ==
    /\ New
    /\ line_len \in LineLens
    /\ disk \in Disks

\* (mutant) a text file does not clear the flag of the built-in text
SetupConfig_KeepsDefaultText(loaded, file_words, file_text, hash) ==
    LET c1 == IF file_words # <<>>
              THEN [loaded EXCEPT !.use_default_word_set = FALSE] ELSE loaded
        c3 == IF file_text = <<>> /\ ~c1.use_default_text_set
              THEN [c1 EXCEPT !.skip_len = 0] ELSE c1
        c4 == IF c3.last_text_txt_hash # hash
              THEN [c3 EXCEPT !.skip_len = 0] ELSE c3
    IN [c4 EXCEPT !.last_text_txt_hash = hash]

\* (mutant) the stored hash is replaced without being compared
SetupConfig_NoHashCheck(loaded, file_words, file_text, hash) ==
    LET c1 == IF file_words # <<>>
              THEN [loaded EXCEPT !.use_default_word_set = FALSE] ELSE loaded
        c2 == IF file_text # <<>> /\ c1.use_default_text_set
              THEN [c1 EXCEPT !.use_default_text_set = FALSE, !.skip_len = 0] ELSE c1
        c3 == IF file_text = <<>> /\ ~c2.use_default_text_set
              THEN [c2 EXCEPT !.skip_len = 0] ELSE c2
    IN [c3 EXCEPT !.last_text_txt_hash = hash]

\* the config after setup's adjustments, given what was loaded and read
SetupConfig(loaded, file_words, file_text, hash) ==
    LET c1 == IF file_words # <<>>
              THEN [loaded EXCEPT !.use_default_word_set = FALSE] ELSE loaded
        c2 == IF file_text # <<>> /\ c1.use_default_text_set
              THEN [c1 EXCEPT !.use_default_text_set = FALSE, !.skip_len = 0] ELSE c1
        c3 == IF file_text = <<>> /\ ~c2.use_default_text_set
              THEN [c2 EXCEPT !.skip_len = 0] ELSE c2
        c4 == IF c3.last_text_txt_hash # hash
              THEN [c3 EXCEPT !.skip_len = 0] ELSE c3
    IN [c4 EXCEPT !.last_text_txt_hash = hash]

\* setup once get_config_dir() has returned the directory
SetupLoads ==
    /\ pc = "new"
    /\ LET file_words == ReadItems(disk.words_txt)
           file_text == ReadItems(disk.text_txt)
           cfg == SetupConfig(LoadConfig(disk), file_words, file_text,
                              CalculateTextTxtHash(disk.text_txt))
       IN /\ config' = cfg
          /\ words' = IF cfg.use_default_word_set THEN default_words ELSE file_words
          /\ text' = IF cfg.use_default_text_set THEN default_text ELSE file_text
    /\ \E l1 \in GenOneLineOfAscii(line_len), l2 \in GenOneLineOfAscii(line_len),
          l3 \in GenOneLineOfAscii(line_len) :
            SetBuf(PopulateThree(Buf, <<l1, l2, l3>>))
    \* load_config writes the default config when there is none
    /\ disk' = IF disk.config.state = "missing"
               THEN SaveConfig(disk, DefaultConfig) ELSE disk
    /\ pc' = "run"
    /\ UNCHANGED <<running, typed, line_len, current_mode, current_typing_option,
                   show_help, show_mistyped, first_text_gen_len, one_line,
                   gen_call, text_entry>>
    /\ UNCHANGED harness

\* setup when get_config_dir() returns Err: the ? operator returns the error
\* at once, before anything is loaded or generated
SetupFails ==
    /\ pc' = "setup_err"
    /\ UNCHANGED <<running, typed, buffers, line_len, current_mode,
                   current_typing_option, words, text, config, show_help,
                   show_mistyped, first_text_gen_len, disk, one_line, gen_call,
                   text_entry>>
    /\ UNCHANGED harness

\* App::setup
Setup ==
    /\ pc = "new"
    /\ IF disk.home THEN SetupLoads ELSE SetupFails

-----------------------------------------------------------------------------
(* The key handlers: on_key_event *)

\* index out of bounds: the process aborts
Panic ==
    /\ pc' = "panic"
    /\ UNCHANGED <<running, typed, charset, input_chars, ids, line_len, lines_len,
                   current_mode, current_typing_option, words, text, config,
                   show_help, show_mistyped, first_text_gen_len, disk, one_line,
                   gen_call, text_entry>>
    /\ UNCHANGED harness

\* the loop reads an event: the app runs and the last keystroke is processed
AwaitsEvent == pc = "run" /\ running /\ ~typed

InMenu ==
    /\ AwaitsEvent /\ ~config.first_boot /\ ~show_help /\ ~show_mistyped
    /\ current_mode = "Menu"

InTyping ==
    /\ AwaitsEvent /\ ~config.first_boot /\ ~show_help /\ ~show_mistyped
    /\ current_mode = "Typing"

\* first boot page, Enter
FirstBootEnter ==
    /\ AwaitsEvent /\ config.first_boot
    /\ config' = [config EXCEPT !.first_boot = FALSE]
    /\ disk' = SaveConfig(disk, config')
    /\ UNCHANGED <<pc, running, typed, buffers, line_len, current_mode,
                   current_typing_option, words, text, show_help, show_mistyped,
                   first_text_gen_len, one_line, gen_call, text_entry>>
    /\ UNCHANGED harness

\* help page, Enter or 'h'
HelpDismiss ==
    /\ AwaitsEvent /\ ~config.first_boot /\ show_help
    /\ show_help' = FALSE
    /\ UNCHANGED <<pc, running, typed, buffers, line_len, current_mode,
                   current_typing_option, words, text, config, show_mistyped,
                   first_text_gen_len, disk, one_line, gen_call, text_entry>>
    /\ UNCHANGED harness

\* most mistyped page, Enter or 'w'
MistypedDismiss ==
    /\ AwaitsEvent /\ ~config.first_boot /\ ~show_help /\ show_mistyped
    /\ show_mistyped' = FALSE
    /\ UNCHANGED <<pc, running, typed, buffers, line_len, current_mode,
                   current_typing_option, words, text, config, show_help,
                   first_text_gen_len, disk, one_line, gen_call, text_entry>>
    /\ UNCHANGED harness

\* Menu, 'q': quit
MenuQuit ==
    /\ InMenu
    /\ running' = FALSE
    /\ UNCHANGED <<pc, typed, buffers, line_len, current_mode,
                   current_typing_option, words, text, config, show_help,
                   show_mistyped, first_text_gen_len, disk, one_line,
                   gen_call, text_entry>>
    /\ UNCHANGED harness

\* Menu, 'r': reset the mistake ledger
MenuResetMistyped ==
    /\ InMenu
    /\ config' = [config EXCEPT !.mistyped_chars = EmptyMap]
    /\ UNCHANGED <<pc, running, typed, buffers, line_len, current_mode,
                   current_typing_option, words, text, show_help, show_mistyped,
                   first_text_gen_len, disk, one_line, gen_call, text_entry>>
    /\ UNCHANGED harness

\* (mutant) 'w' shows the most mistyped page from any mode and page
MenuShowMistyped_FromAnywhere ==
    /\ AwaitsEvent /\ ~config.first_boot
    /\ show_mistyped' = TRUE
    /\ UNCHANGED <<pc, running, typed, buffers, line_len, current_mode,
                   current_typing_option, words, text, config, show_help,
                   first_text_gen_len, disk, one_line, gen_call, text_entry>>
    /\ UNCHANGED harness

\* Menu, 'w': show the most mistyped page
MenuShowMistyped ==
    /\ InMenu
    /\ show_mistyped' = TRUE
    /\ UNCHANGED <<pc, running, typed, buffers, line_len, current_mode,
                   current_typing_option, words, text, config, show_help,
                   first_text_gen_len, disk, one_line, gen_call, text_entry>>
    /\ UNCHANGED harness

\* Menu, 'c': toggle counting mistyped characters
MenuToggleSaveMistyped ==
    /\ InMenu
    /\ config' = [config EXCEPT !.save_mistyped = ~@]
    /\ UNCHANGED <<pc, running, typed, buffers, line_len, current_mode,
                   current_typing_option, words, text, show_help, show_mistyped,
                   first_text_gen_len, disk, one_line, gen_call, text_entry>>
    /\ UNCHANGED harness

\* Menu, 'h': show the help page
MenuShowHelp ==
    /\ InMenu
    /\ show_help' = TRUE
    /\ UNCHANGED <<pc, running, typed, buffers, line_len, current_mode,
                   current_typing_option, words, text, config, show_mistyped,
                   first_text_gen_len, disk, one_line, gen_call, text_entry>>
    /\ UNCHANGED harness


\* (mutant) the switch to the Words option puts the cursor back to 0
SwitchAsciiToWords_ResetsCursor ==
    /\ current_typing_option = "Ascii"
    /\ current_typing_option' = "Words"
    /\ IF words # <<>>
       THEN \E l1 \in GenOneLineOfWords(words, line_len),
               l2 \in GenOneLineOfWords(words, line_len),
               l3 \in GenOneLineOfWords(words, line_len) :
                 SetBuf(PopulateThree(ClearTypingBuffers(Buf), <<l1, l2, l3>>))
       ELSE SetBuf(ClearTypingBuffers(Buf))
    /\ config' = [config EXCEPT !.skip_len = 0]
    /\ UNCHANGED <<pc, first_text_gen_len, text_entry>>

\* (mutant) an option whose corpus is empty is skipped
SwitchAsciiToWords_SkipsEmpty ==
    /\ current_typing_option = "Ascii"
    /\ IF words # <<>>
       THEN /\ current_typing_option' = "Words"
            /\ \E l1 \in GenOneLineOfWords(words, line_len),
                  l2 \in GenOneLineOfWords(words, line_len),
                  l3 \in GenOneLineOfWords(words, line_len) :
                    SetBuf(PopulateThree(ClearTypingBuffers(Buf), <<l1, l2, l3>>))
       ELSE /\ current_typing_option' = "Text"
            /\ SetBuf(ClearTypingBuffers(Buf))
    /\ UNCHANGED <<pc, config, first_text_gen_len, text_entry>>

\* switch_typing_option, Ascii -> Words
SwitchAsciiToWords ==
    /\ current_typing_option = "Ascii"
    /\ current_typing_option' = "Words"
    /\ IF words # <<>>
       THEN \E l1 \in GenOneLineOfWords(words, line_len),
               l2 \in GenOneLineOfWords(words, line_len),
               l3 \in GenOneLineOfWords(words, line_len) :
                 SetBuf(PopulateThree(ClearTypingBuffers(Buf), <<l1, l2, l3>>))
       ELSE SetBuf(ClearTypingBuffers(Buf))
    /\ UNCHANGED <<pc, config, first_text_gen_len, text_entry>>

\* (mutant) the tokens of the three lines are not counted on entering Text
SwitchWordsToText_NoCount ==
    /\ current_typing_option = "Words"
    /\ current_typing_option' = "Text"
    /\ IF text # <<>>
       THEN LET g == GenThreeLinesOfText(text, config.skip_len, line_len)
            IN /\ SetBuf(PopulateThree(ClearTypingBuffers(Buf), g.lines))
               /\ config' = [config EXCEPT !.skip_len = g.skip_len]
               /\ text_entry' = [some |-> TRUE, skip_len |-> config.skip_len]
       ELSE /\ SetBuf(ClearTypingBuffers(Buf))
            /\ UNCHANGED <<config, text_entry>>
    /\ UNCHANGED <<pc, first_text_gen_len>>

\* switch_typing_option, Words -> Text
SwitchWordsToText ==
    /\ current_typing_option = "Words"
    /\ IF text # <<>>
       THEN LET g == GenThreeLinesOfText(text, config.skip_len, line_len)
            IN IF g.ok
               THEN /\ current_typing_option' = "Text"
                    /\ SetBuf(PopulateThree(ClearTypingBuffers(Buf), g.lines))
                    /\ config' = [config EXCEPT !.skip_len = g.skip_len]
                    /\ first_text_gen_len' = first_text_gen_len + g.tokens
                    /\ text_entry' = [some |-> TRUE, skip_len |-> config.skip_len]
                    /\ pc' = pc
               ELSE /\ pc' = "panic"
                    /\ UNCHANGED <<buffers, current_typing_option, config,
                                   first_text_gen_len, text_entry>>
       ELSE /\ current_typing_option' = "Text"
            /\ SetBuf(ClearTypingBuffers(Buf))
            /\ UNCHANGED <<pc, config, first_text_gen_len, text_entry>>

\* (mutant) the switch away from the Text option keeps the counter
SwitchTextToAscii_KeepsCounter ==
    /\ current_typing_option = "Text"
    /\ config' = [config EXCEPT
                    !.skip_len = SubtractLookahead(@, first_text_gen_len)]
    /\ first_text_gen_len' = first_text_gen_len
    /\ current_typing_option' = "Ascii"
    /\ \E l1 \in GenOneLineOfAscii(line_len), l2 \in GenOneLineOfAscii(line_len),
          l3 \in GenOneLineOfAscii(line_len) :
            SetBuf(PopulateThree(ClearTypingBuffers(Buf), <<l1, l2, l3>>))
    /\ text_entry' = NoEntry
    /\ pc' = pc

\* switch_typing_option, Text -> Ascii
SwitchTextToAscii ==
    /\ current_typing_option = "Text"
    /\ config' = [config EXCEPT
                    !.skip_len = SubtractLookahead(@, first_text_gen_len)]
    /\ first_text_gen_len' = 0
    /\ current_typing_option' = "Ascii"
    /\ \E l1 \in GenOneLineOfAscii(line_len), l2 \in GenOneLineOfAscii(line_len),
          l3 \in GenOneLineOfAscii(line_len) :
            SetBuf(PopulateThree(ClearTypingBuffers(Buf), <<l1, l2, l3>>))
    /\ text_entry' = NoEntry
    /\ pc' = pc

\* Menu, 'o': switch_typing_option
MenuSwitchTypingOption ==
    /\ InMenu
    /\ \/ SwitchAsciiToWords
       \/ SwitchWordsToText
       \/ SwitchTextToAscii
    /\ UNCHANGED <<running, typed, line_len, current_mode, words, text, show_help,
                   show_mistyped, disk, one_line, gen_call>>
    /\ UNCHANGED harness

\* (mutant) 'i' switches to Typing mode whatever the corpus
MenuEnterTyping_NoCheck ==
    /\ InMenu
    /\ current_mode' = "Typing"
    /\ UNCHANGED <<pc, running, typed, buffers, line_len, current_typing_option,
                   words, text, config, show_help, show_mistyped,
                   first_text_gen_len, disk, one_line, gen_call, text_entry>>
    /\ UNCHANGED harness

\* Menu, 'i': switch to Typing mode, unless the active option has no corpus
MenuEnterTyping ==
    /\ InMenu
    /\ current_mode' =
          IF \/ current_typing_option = "Words" /\ Len(words) = 0
             \/ current_typing_option = "Text" /\ Len(text) = 0
          THEN current_mode
          ELSE "Typing"
    /\ UNCHANGED <<pc, running, typed, buffers, line_len, current_typing_option,
                   words, text, config, show_help, show_mistyped,
                   first_text_gen_len, disk, one_line, gen_call, text_entry>>
    /\ UNCHANGED harness

\* Menu, Enter, Words option: use the default word set
UseDefaultWords ==
    /\ current_typing_option = "Words"
    /\ words = <<>>
    /\ words' = default_words
    /\ \E l1 \in GenOneLineOfWords(words', line_len),
          l2 \in GenOneLineOfWords(words', line_len),
          l3 \in GenOneLineOfWords(words', line_len) :
            SetBuf(PopulateThree(Buf, <<l1, l2, l3>>))
    /\ config' = [config EXCEPT !.use_default_word_set = TRUE]
    /\ UNCHANGED <<pc, text, first_text_gen_len>>

\* (mutant) the tokens of the three lines are not counted
UseDefaultText_NoCount ==
    /\ current_typing_option = "Text"
    /\ text = <<>>
    /\ text' = default_text
    /\ LET g == GenThreeLinesOfText(text', config.skip_len, line_len)
       IN /\ SetBuf(PopulateThree(Buf, g.lines))
          /\ first_text_gen_len' = first_text_gen_len
          /\ config' = [config EXCEPT !.skip_len = g.skip_len,
                                      !.use_default_text_set = TRUE]
          /\ pc' = pc
    /\ UNCHANGED words

\* Menu, Enter, Text option: use the default text
UseDefaultText ==
    /\ current_typing_option = "Text"
    /\ text = <<>>
    /\ text' = default_text
    /\ LET g == GenThreeLinesOfText(text', config.skip_len, line_len)
       IN IF g.ok
          THEN /\ SetBuf(PopulateThree(Buf, g.lines))
               /\ first_text_gen_len' = first_text_gen_len + g.tokens
               /\ config' = [config EXCEPT !.skip_len = g.skip_len,
                                           !.use_default_text_set = TRUE]
               /\ pc' = pc
          ELSE /\ pc' = "panic"
               /\ UNCHANGED <<buffers, first_text_gen_len, config>>
    /\ UNCHANGED words

\* Menu, Enter with nothing to do: the Ascii option, or a corpus is loaded
EnterIgnored ==
    /\ \/ current_typing_option = "Ascii"
       \/ current_typing_option = "Words" /\ words # <<>>
       \/ current_typing_option = "Text" /\ text # <<>>
    /\ UNCHANGED <<pc, buffers, words, text, config, first_text_gen_len>>

\* Menu, Enter
MenuEnter ==
    /\ InMenu
    /\ \/ UseDefaultWords
       \/ UseDefaultText
       \/ EnterIgnored
    /\ UNCHANGED <<running, typed, line_len, current_mode, current_typing_option,
                   show_help, show_mistyped, disk, one_line,
                   gen_call, text_entry>>
    /\ UNCHANGED harness

\* (mutant) Esc also drops what was typed
TypingEsc_DropsTyped ==
    /\ InTyping
    /\ current_mode' = "Menu"
    /\ input_chars' = <<>>
    /\ UNCHANGED <<pc, running, typed, charset, ids, lines_len, line_len,
                   current_typing_option, words, text, config, show_help,
                   show_mistyped, first_text_gen_len, disk, one_line, gen_call,
                   text_entry>>
    /\ UNCHANGED harness

\* Typing, Esc: back to Menu mode
TypingEsc ==
    /\ InTyping
    /\ current_mode' = "Menu"
    /\ UNCHANGED <<pc, running, typed, buffers, line_len, current_typing_option,
                   words, text, config, show_help, show_mistyped,
                   first_text_gen_len, disk, one_line, gen_call, text_entry>>
    /\ UNCHANGED harness

\* the keystroke c would add to the ledger
WouldCount(c) ==
    /\ config.save_mistyped
    /\ Len(input_chars) < Len(charset)
    /\ charset[Len(input_chars) + 1] # c

\* Typing, a character key
TypingChar(c) ==
    /\ InTyping
    /\ WouldCount(c) => LedgerTotal(config.mistyped_chars) < MaxMistakes
    /\ input_chars' = Append(input_chars, c)
    /\ typed' = TRUE
    /\ text_entry' = NoEntry
    /\ UNCHANGED <<pc, running, charset, ids, line_len, lines_len, current_mode,
                   current_typing_option, words, text, config, show_help,
                   show_mistyped, first_text_gen_len, disk, one_line, gen_call>>
    /\ UNCHANGED harness

\* (mutant) the id of the removed character is not reset
TypingBackspace_KeepsId ==
    /\ InTyping
    /\ Len(input_chars) > 0
    /\ input_chars' = SubSeq(input_chars, 1, Len(input_chars) - 1)
    /\ UNCHANGED <<pc, running, typed, charset, ids, line_len, lines_len,
                   current_mode, current_typing_option, words, text, config,
                   show_help, show_mistyped, first_text_gen_len, disk, one_line,
                   gen_call, text_entry>>
    /\ UNCHANGED harness

\* (mutant) the last character is popped without looking at the length
TypingBackspace_Underflow ==
    /\ InTyping
    /\ LET position == Len(input_chars)
       IN IF position = 0 \/ position > Len(ids)
          THEN Panic
          ELSE /\ input_chars' = SubSeq(input_chars, 1, position - 1)
               /\ ids' = [ids EXCEPT ![position] = 0]
               /\ UNCHANGED <<pc, running, typed, charset, line_len, lines_len,
                              current_mode, current_typing_option, words, text,
                              config, show_help, show_mistyped,
                              first_text_gen_len, disk, one_line, gen_call,
                              text_entry>>
    /\ UNCHANGED harness

\* Typing, Backspace
TypingBackspace ==
    /\ InTyping
    /\ LET position == Len(input_chars)
       IN IF position > 0
          THEN IF position > Len(ids)
               THEN Panic
               ELSE /\ input_chars' = SubSeq(input_chars, 1, position - 1)
                    /\ ids' = [ids EXCEPT ![position] = 0]
                    /\ UNCHANGED <<pc, running, typed, charset, line_len, lines_len,
                                   current_mode, current_typing_option, words, text,
                                   config, show_help, show_mistyped,
                                   first_text_gen_len, disk, one_line,
                                   gen_call, text_entry>>
          ELSE UNCHANGED vars
    /\ UNCHANGED harness

-----------------------------------------------------------------------------
(* The main loop: run *)

\* "If the user typed": update_id_field, then update_lines, then typed = false
ProcessTyped ==
    /\ pc = "run" /\ running /\ typed
    /\ \/ current_typing_option = "Ascii"
       \/ current_typing_option = "Words" /\ Len(words) # 0
       \/ current_typing_option = "Text" /\ Len(text) # 0
    /\ IF \/ Len(input_chars) = 0
          \/ Len(input_chars) > Len(charset)
          \/ Len(input_chars) > Len(ids)
       THEN Panic      \* update_id_field indexes past the end
       ELSE LET u == UpdateIdField(Buf, config)
                b == [Buf EXCEPT !.ids = u.ids]
            IN IF Len(b.lines_len) < 2
               THEN Panic      \* update_lines indexes lines_len[0], lines_len[1]
               ELSE IF EndOfSecondLine(b)
               THEN \E g \in GenLineFor(current_typing_option) :
                       IF g.ok
                       THEN /\ SetBuf(RetireAndRefill(b, g.line))
                            /\ config' = [config EXCEPT
                                            !.mistyped_chars = u.mistyped_chars,
                                            !.skip_len = g.skip_len]
                            /\ typed' = FALSE
                            /\ UNCHANGED <<pc, running, line_len, current_mode,
                                           current_typing_option, words, text,
                                           show_help, show_mistyped,
                                           first_text_gen_len, disk, one_line,
                                           gen_call, text_entry>>
                       ELSE Panic
               ELSE /\ SetBuf(b)
                    /\ config' = [config EXCEPT !.mistyped_chars = u.mistyped_chars]
                    /\ typed' = FALSE
                    /\ UNCHANGED <<pc, running, line_len, current_mode,
                                   current_typing_option, words, text, show_help,
                                   show_mistyped, first_text_gen_len, disk,
                                   one_line, gen_call, text_entry>>
    /\ UNCHANGED harness

\* (mutant) a failed save aborts on_exit
OnExit_PanicsOnFailedSave ==
    /\ pc = "run" /\ ~running
    /\ config' = IF current_typing_option = "Text"
                 THEN [config EXCEPT
                         !.skip_len = SubtractLookahead(@, first_text_gen_len)]
                 ELSE config
    /\ disk' = SaveConfig(disk, config')
    /\ pc' = IF disk.writable THEN "exited" ELSE "panic"
    /\ UNCHANGED <<running, typed, buffers, line_len, current_mode,
                   current_typing_option, words, text, show_help, show_mistyped,
                   first_text_gen_len, one_line, gen_call, text_entry>>
    /\ UNCHANGED harness

\* App::on_exit, once the loop has ended
OnExit ==
    /\ pc = "run" /\ ~running
    /\ config' = IF current_typing_option = "Text"
                 THEN [config EXCEPT
                         !.skip_len = SubtractLookahead(@, first_text_gen_len)]
                 ELSE config
    /\ disk' = SaveConfig(disk, config')
    /\ pc' = "exited"
    /\ UNCHANGED <<running, typed, buffers, line_len, current_mode,
                   current_typing_option, words, text, show_help, show_mistyped,
                   first_text_gen_len, one_line, gen_call, text_entry>>
    /\ UNCHANGED harness

Next ==
    \/ Setup
    \/ FirstBootEnter
    \/ HelpDismiss
    \/ MistypedDismiss
    \/ MenuQuit
    \/ MenuResetMistyped
    \/ MenuShowMistyped
    \/ MenuToggleSaveMistyped
    \/ MenuShowHelp
    \/ MenuSwitchTypingOption
    \/ MenuEnterTyping
    \/ MenuEnter
    \/ TypingEsc
    \/ \E c \in KeyChars : TypingChar(c)
    \/ TypingBackspace
    \/ ProcessTyped
    \/ OnExit

Spec == Init /\ [][Next]_vars


-----------------------------------------------------------------------------
(* The line generators on their own: every corpus of up to MaxCorpusLen     *)
(* tokens of up to MaxTokenLen characters, every cursor and every width up  *)
(* to MaxGenLineLen.                                                        *)

\* the token of k characters
Token(k) == [i \in 1..k |-> <<"a", "b", "c", "d", "e", "f">>[k]]

RECURSIVE CorporaOfLen(_)
CorporaOfLen(k) ==
    IF k = 0 THEN {<<>>}
    ELSE {Append(c, Token(t)) : c \in CorporaOfLen(k - 1), t \in 1..MaxTokenLen}

GenCorpora == UNION {CorporaOfLen(k) : k \in 1..MaxCorpusLen}

\* App::new() with line_len, the corpus and the cursor then set, as the
\* generators' unit tests do
InitGen ==
    /\ pc = "gen"
    /\ running = TRUE
    /\ typed = FALSE
    /\ charset = <<>>
    /\ input_chars = <<>>
    /\ ids = <<>>
    /\ lines_len = <<>>
    /\ current_mode = "Menu"
    /\ current_typing_option = "Ascii"
    /\ show_help = FALSE
    /\ show_mistyped = FALSE
    /\ first_text_gen_len = 0
    /\ one_line = <<>>
    /\ gen_call = "none"
    /\ text_entry = NoEntry
    /\ notifications = NotificationsNew
    /\ now = 0
    /\ on_tick_ret = "none"
    /\ sorted_mistakes = NoResult
    /\ disk = [config |-> [state |-> "missing", value |-> DefaultConfig],
               words_txt |-> Absent, text_txt |-> Absent, writable |-> TRUE,
               home |-> TRUE]
    /\ line_len \in 1..MaxGenLineLen
    /\ \E corpus \in GenCorpora :
          /\ words = corpus
          /\ text = corpus
          /\ \E cursor \in 0..Len(corpus) :
                config = [DefaultConfig EXCEPT !.skip_len = cursor]

\* let line = app.gen_one_line_of_ascii()
CallGenOneLineOfAscii ==
    /\ pc = "gen"
    /\ \E l \in GenOneLineOfAscii(line_len) : one_line' = l
    /\ gen_call' = "ascii"
    /\ UNCHANGED <<pc, running, typed, buffers, line_len, current_mode,
                   current_typing_option, words, text, config, show_help,
                   show_mistyped, first_text_gen_len, disk, text_entry>>
    /\ UNCHANGED harness

\* let line = app.gen_one_line_of_words()
CallGenOneLineOfWords ==
    /\ pc = "gen"
    /\ words # <<>>
    /\ \E l \in GenOneLineOfWords(words, line_len) : one_line' = l
    /\ gen_call' = "words"
    /\ UNCHANGED <<pc, running, typed, buffers, line_len, current_mode,
                   current_typing_option, words, text, config, show_help,
                   show_mistyped, first_text_gen_len, disk, text_entry>>
    /\ UNCHANGED harness

\* let line = app.gen_one_line_of_text()
CallGenOneLineOfText ==
    /\ pc = "gen"
    /\ LET g == GenOneLineOfText(text, config.skip_len, line_len)
       IN /\ g.ok
          /\ one_line' = g.line
          /\ config' = [config EXCEPT !.skip_len = g.skip_len]
    /\ gen_call' = "text"
    /\ UNCHANGED <<pc, running, typed, buffers, line_len, current_mode,
                   current_typing_option, words, text, show_help,
                   show_mistyped, first_text_gen_len, disk, text_entry>>
    /\ UNCHANGED harness

NextGen ==
    \/ CallGenOneLineOfAscii
    \/ CallGenOneLineOfWords
    \/ CallGenOneLineOfText

SpecGen == InitGen /\ [][NextGen]_vars


-----------------------------------------------------------------------------
(* A Notifications object on its own, as in the unit tests of Notifications: *)
(* show_* and on_tick are called while the clock advances.                   *)

\* the clock is followed for this many seconds
MaxClock == 5

\* let mut notifications = Notifications::new()
InitNotif ==
    /\ pc = "notif"
    /\ running = TRUE
    /\ typed = FALSE
    /\ charset = <<>>
    /\ input_chars = <<>>
    /\ ids = <<>>
    /\ lines_len = <<>>
    /\ current_mode = "Menu"
    /\ current_typing_option = "Ascii"
    /\ words = <<>>
    /\ text = <<>>
    /\ config = DefaultConfig
    /\ show_help = FALSE
    /\ show_mistyped = FALSE
    /\ first_text_gen_len = 0
    /\ one_line = <<>>
    /\ gen_call = "none"
    /\ text_entry = NoEntry
    /\ disk = [config |-> [state |-> "missing", value |-> DefaultConfig],
               words_txt |-> Absent, text_txt |-> Absent, writable |-> TRUE,
               home |-> TRUE]
    /\ line_len = 1
    /\ notifications = NotificationsNew
    /\ now = 0
    /\ on_tick_ret = "none"
    /\ sorted_mistakes = NoResult

\* what a call on the Notifications object leaves alone
NotifFrame ==
    UNCHANGED <<pc, running, typed, buffers, line_len, current_mode,
                current_typing_option, words, text, config, show_help,
                show_mistyped, first_text_gen_len, disk, one_line, gen_call,
                text_entry, sorted_mistakes>>

\* notifications.show_mode()
CallShowMode ==
    /\ pc = "notif"
    /\ notifications' = ShowMode(notifications, now)
    /\ on_tick_ret' = "none"
    /\ now' = now
    /\ NotifFrame

\* notifications.show_option()
CallShowOption ==
    /\ pc = "notif"
    /\ notifications' = ShowOption(notifications, now)
    /\ on_tick_ret' = "none"
    /\ now' = now
    /\ NotifFrame

\* notifications.show_toggle()
CallShowToggle ==
    /\ pc = "notif"
    /\ notifications' = ShowToggle(notifications, now)
    /\ on_tick_ret' = "none"
    /\ now' = now
    /\ NotifFrame

\* notifications.show_mistyped()
CallShowMistyped ==
    /\ pc = "notif"
    /\ notifications' = ShowMistyped(notifications, now)
    /\ on_tick_ret' = "none"
    /\ now' = now
    /\ NotifFrame

\* notifications.show_clear_mistyped()
CallShowClearMistyped ==
    /\ pc = "notif"
    /\ notifications' = ShowClearMistyped(notifications, now)
    /\ on_tick_ret' = "none"
    /\ now' = now
    /\ NotifFrame

\* notifications.on_tick()
CallOnTick ==
    /\ pc = "notif"
    /\ LET r == NotificationsOnTick(notifications, now)
       IN /\ notifications' = r.notifications
          /\ on_tick_ret' = IF r.ret THEN "true" ELSE "false"
    /\ now' = now
    /\ NotifFrame

\* a second passes (thread::sleep in the unit test)
TimePasses ==
    /\ pc = "notif"
    /\ now < MaxClock
    /\ now' = now + 1
    /\ UNCHANGED <<notifications, on_tick_ret>>
    /\ NotifFrame

NextNotif ==
    \/ CallShowMode
    \/ CallShowOption
    \/ CallShowToggle
    \/ CallShowMistyped
    \/ CallShowClearMistyped
    \/ CallOnTick
    \/ TimePasses

SpecNotif == InitNotif /\ [][NextNotif]_vars


-----------------------------------------------------------------------------
(* Sessions that start and quit at once, over every config directory the   *)
(* program may find: config file missing, unreadable or left by an earlier  *)
(* session, text.txt absent, blank, unchanged or changed, and a directory   *)
(* that can or cannot be written.                                            *)

\* text.txt with white space only: " "
BlankTxt == [exists |-> TRUE, content |-> <<" ">>]

\* text.txt with another content: "b a"
OtherTxt == [exists |-> TRUE, content |-> <<"b", " ", "a">>]

StartTexts == {Absent, BlankTxt, TextTxt, OtherTxt}

\* the cursors a stored config may hold
StoredCursors == {0, 1, 2}

\* the config files an earlier session may have left: the cursor is 0 unless
\* that session had a text (the built-in one, or a text.txt with tokens), and
\* the built-in text is flagged only if its text.txt had no token
StoredConfigs ==
    {c \in {[DefaultConfig EXCEPT !.first_boot = fb,
                                  !.skip_len = k,
                                  !.use_default_word_set = uw,
                                  !.use_default_text_set = ut,
                                  !.last_text_txt_hash = CalculateTextTxtHash(f)] :
               fb \in BOOLEAN, k \in StoredCursors, uw \in BOOLEAN,
               ut \in BOOLEAN, f \in StartTexts} :
        LET had_file_text ==
              c.last_text_txt_hash \in {CalculateTextTxtHash(TextTxt),
                                        CalculateTextTxtHash(OtherTxt)}
        IN /\ c.skip_len > 0 => (c.use_default_text_set \/ had_file_text)
           /\ c.use_default_text_set => ~had_file_text}

\* no home directory: get_config_dir() finds no place for the config
\* directory, so there is no file to read and none can be written
NoHomeDisk ==
    [config |-> [state |-> "missing", value |-> DefaultConfig],
     words_txt |-> Absent, text_txt |-> Absent, writable |-> FALSE,
     home |-> FALSE]

StartDisks ==
    {[config |-> cf, words_txt |-> w, text_txt |-> t, writable |-> wr,
      home |-> TRUE] :
        cf \in {[state |-> "missing", value |-> DefaultConfig],
                [state |-> "corrupt", value |-> DefaultConfig]}
               \cup {[state |-> "ok", value |-> c] : c \in StoredConfigs},
        w \in {Absent, WordsTxt},
        t \in StartTexts,
        wr \in BOOLEAN}
    \cup {NoHomeDisk}

InitStart ==
    /\ New
    /\ line_len = 1
    /\ disk \in StartDisks

\* the session: setup, Enter on the first boot page, 'q', on_exit
NextStart ==
    \/ Setup
    \/ FirstBootEnter
    \/ MenuQuit
    \/ OnExit

SpecStart == InitStart /\ [][NextStart]_vars

\* main calls on_exit as soon as run returns
SpecStartFair == SpecStart /\ WF_vars(OnExit)

-----------------------------------------------------------------------------
(* A session in the Text option at a width that holds lines of one and of   *)
(* two tokens: the user goes to the Text option, types, and leaves it by    *)
(* 'o' or by quitting.                                                       *)

\* the width of the session's lines
WideLineLen == 3

\* text.txt: "a b bbb bbb bbb a"
WideTextTxt ==
    [exists |-> TRUE,
     content |-> <<"a", " ", "b", " ", "b", "b", "b", " ", "b", "b", "b", " ",
                   "b", "b", "b", " ", "a">>]

\* the config directory: the config file of an earlier session that read
\* WideTextTxt and left the cursor at 0, no word list
WideDisk ==
    [config |-> [state |-> "ok",
                 value |-> [DefaultConfig EXCEPT
                              !.first_boot = FALSE,
                              !.last_text_txt_hash = CalculateTextTxtHash(WideTextTxt)]],
     words_txt |-> Absent, text_txt |-> WideTextTxt, writable |-> TRUE,
               home |-> TRUE]

InitWide ==
    /\ New
    /\ line_len = WideLineLen
    /\ disk = WideDisk

\* the keys of the session: 'o', 'i' in the Text option, characters, Esc, 'q'
NextWide ==
    \/ Setup
    \/ MenuSwitchTypingOption
    \/ current_typing_option = "Text" /\ MenuEnterTyping
    \/ \E c \in KeyChars : TypingChar(c)
    \/ ProcessTyped
    \/ TypingEsc
    \/ MenuQuit
    \/ OnExit

SpecWide == InitWide /\ [][NextWide]_vars

-----------------------------------------------------------------------------
(* get_sorted_mistakes on its own, over every ledger of LedgerKeys with     *)
(* counts up to MaxCount.                                                   *)

\* the largest count of a ledger of the harness
MaxCount == 2

\* the ledgers: each key absent or with a count of 1..MaxCount
Ledgers ==
    UNION {[ks -> 1..MaxCount] : ks \in SUBSET LedgerKeys}

\* let mut mistyped_chars = HashMap::new(); mistyped_chars.insert(..); ...
InitSort ==
    /\ pc = "sort"
    /\ running = TRUE
    /\ typed = FALSE
    /\ charset = <<>>
    /\ input_chars = <<>>
    /\ ids = <<>>
    /\ lines_len = <<>>
    /\ current_mode = "Menu"
    /\ current_typing_option = "Ascii"
    /\ words = <<>>
    /\ text = <<>>
    /\ show_help = FALSE
    /\ show_mistyped = FALSE
    /\ first_text_gen_len = 0
    /\ one_line = <<>>
    /\ gen_call = "none"
    /\ text_entry = NoEntry
    /\ disk = [config |-> [state |-> "missing", value |-> DefaultConfig],
               words_txt |-> Absent, text_txt |-> Absent, writable |-> TRUE,
               home |-> TRUE]
    /\ line_len = 1
    /\ notifications = NotificationsNew
    /\ now = 0
    /\ on_tick_ret = "none"
    /\ sorted_mistakes = NoResult
    /\ \E m \in Ledgers : config = [DefaultConfig EXCEPT !.mistyped_chars = m]

\* let sorted_result = get_sorted_mistakes(&mistyped_chars)
CallGetSortedMistakes ==
    /\ pc = "sort"
    /\ \E collected \in Iterations(config.mistyped_chars) :
          sorted_mistakes' = [called |-> TRUE, list |-> SortBy(collected)]
    /\ UNCHANGED <<pc, running, typed, buffers, line_len, current_mode,
                   current_typing_option, words, text, config, show_help,
                   show_mistyped, first_text_gen_len, disk, one_line, gen_call,
                   text_entry, notifications, now, on_tick_ret>>

NextSort == CallGetSortedMistakes

SpecSort == InitSort /\ [][NextSort]_vars

-----------------------------------------------------------------------------
(* The loops of gen_one_line_of_words and gen_one_line_of_text, one          *)
(* iteration per step: one_line holds the vector line_of_words /            *)
(* line_of_text, gen_call says which generator runs.                        *)

\* a generator is called on App::new() with line_len, the corpora and the
\* cursor then set
InitLoop ==
    /\ pc = "loop"
    /\ running = TRUE
    /\ typed = FALSE
    /\ charset = <<>>
    /\ input_chars = <<>>
    /\ ids = <<>>
    /\ lines_len = <<>>
    /\ current_mode = "Menu"
    /\ current_typing_option = "Ascii"
    /\ show_help = FALSE
    /\ show_mistyped = FALSE
    /\ first_text_gen_len = 0
    /\ one_line = <<>>
    /\ text_entry = NoEntry
    /\ disk = [config |-> [state |-> "missing", value |-> DefaultConfig],
               words_txt |-> Absent, text_txt |-> Absent, writable |-> TRUE,
               home |-> TRUE]
    /\ notifications = NotificationsNew
    /\ now = 0
    /\ on_tick_ret = "none"
    /\ sorted_mistakes = NoResult
    /\ gen_call \in {"words", "text"}
    /\ line_len \in 0..MaxGenLineLen
    /\ \E corpus \in GenCorpora :
          /\ words = corpus
          /\ text = corpus
          /\ \E cursor \in 0..Len(corpus) :
                config = [DefaultConfig EXCEPT !.skip_len = cursor]

\* one iteration of the loop of gen_one_line_of_words
WordsIteration ==
    /\ pc = "loop" /\ gen_call = "words"
    /\ \E index \in 1..Len(words) :
          LET pushed == Append(one_line, words[index])
          IN IF Len(Join(pushed)) > line_len
             THEN one_line' = one_line /\ pc' = "returned"
             ELSE one_line' = pushed /\ pc' = pc
    /\ UNCHANGED <<running, typed, buffers, line_len, current_mode,
                   current_typing_option, words, text, config, show_help,
                   show_mistyped, first_text_gen_len, disk, gen_call,
                   text_entry>>
    /\ UNCHANGED harness

\* (mutant) the width of the token pushed, not of the line, is compared
TextIteration_ComparesToken ==
    /\ pc = "loop" /\ gen_call = "text"
    /\ LET s0 == IF config.skip_len = Len(text) THEN 0 ELSE config.skip_len
       IN IF s0 >= Len(text)
          THEN pc' = "panic" /\ UNCHANGED <<one_line, config>>
          ELSE IF Len(text[s0 + 1]) > line_len
               THEN /\ one_line' = one_line
                    /\ config' = [config EXCEPT !.skip_len = s0]
                    /\ pc' = "returned"
               ELSE /\ one_line' = Append(one_line, text[s0 + 1])
                    /\ config' = [config EXCEPT !.skip_len = s0 + 1]
                    /\ pc' = pc
    /\ UNCHANGED <<running, typed, buffers, line_len, current_mode,
                   current_typing_option, words, text, show_help,
                   show_mistyped, first_text_gen_len, disk, gen_call,
                   text_entry>>
    /\ UNCHANGED harness

\* one iteration of the loop of gen_one_line_of_text
TextIteration ==
    /\ pc = "loop" /\ gen_call = "text"
    /\ LET s0 == IF config.skip_len = Len(text) THEN 0 ELSE config.skip_len
       IN IF s0 >= Len(text)
          THEN pc' = "panic" /\ UNCHANGED <<one_line, config>>
          ELSE LET pushed == Append(one_line, text[s0 + 1])
               IN IF Len(Join(pushed)) > line_len
                  THEN /\ one_line' = one_line
                       /\ config' = [config EXCEPT !.skip_len = s0]
                       /\ pc' = "returned"
                  ELSE /\ one_line' = pushed
                       /\ config' = [config EXCEPT !.skip_len = s0 + 1]
                       /\ pc' = pc
    /\ UNCHANGED <<running, typed, buffers, line_len, current_mode,
                   current_typing_option, words, text, show_help,
                   show_mistyped, first_text_gen_len, disk, gen_call,
                   text_entry>>
    /\ UNCHANGED harness

NextLoop ==
    \/ WordsIteration
    \/ TextIteration

SpecLoop == InitLoop /\ [][NextLoop]_vars

\* a loop that is running takes its next iteration
SpecLoopFair == SpecLoop /\ WF_vars(NextLoop)

-----------------------------------------------------------------------------
(* gen_one_line_of_text on its own, over the text of its unit test at the   *)
(* test's width and over every corpus of five tokens.                       *)

\* "This is a sample text for testing purposes."
SampleSentence ==
    <<"T", "h", "i", "s", " ", "i", "s", " ", "a", " ", "s", "a", "m", "p",
      "l", "e", " ", "t", "e", "x", "t", " ", "f", "o", "r", " ", "t", "e",
      "s", "t", "i", "n", "g", " ", "p", "u", "r", "p", "o", "s", "e", "s",
      ".">>

\* the text of the unit test: the sentence split at whitespace
SampleText == SplitWhitespace(SampleSentence)

\* app.line_len of the unit test
SampleLineLen == 20

\* the corpora and widths explored: a line of two of the longest tokens is
\* 2 * MaxTokenLen + 1 wide
TextScenarios ==
    {[text |-> SampleText, line_len |-> SampleLineLen]}
    \cup {[text |-> t, line_len |-> n] :
             t \in CorporaOfLen(5), n \in 1..(2 * MaxTokenLen + 1)}

\* App::new() with line_len and text then set and the cursor at 0, as the unit
\* test of gen_one_line_of_text does
InitText ==
    /\ pc = "gen"
    /\ running = TRUE
    /\ typed = FALSE
    /\ charset = <<>>
    /\ input_chars = <<>>
    /\ ids = <<>>
    /\ lines_len = <<>>
    /\ current_mode = "Menu"
    /\ current_typing_option = "Ascii"
    /\ show_help = FALSE
    /\ show_mistyped = FALSE
    /\ first_text_gen_len = 0
    /\ one_line = <<>>
    /\ gen_call = "none"
    /\ text_entry = NoEntry
    /\ notifications = NotificationsNew
    /\ now = 0
    /\ on_tick_ret = "none"
    /\ sorted_mistakes = NoResult
    /\ disk = [config |-> [state |-> "missing", value |-> DefaultConfig],
               words_txt |-> Absent, text_txt |-> Absent, writable |-> TRUE,
               home |-> TRUE]
    /\ words = <<>>
    /\ config = DefaultConfig      \* app.config.skip_len = 0
    /\ \E sc \in TextScenarios :
          /\ text = sc.text
          /\ line_len = sc.line_len

NextText == CallGenOneLineOfText

SpecText == InitText /\ [][NextText]_vars

-----------------------------------------------------------------------------
(* Properties *)

\* the loop is between two events: the last event is fully processed
AtRest == pc = "run" /\ ~typed

\* this step is ProcessTyped retiring the first line: update_lines found the
\* end of the second line
Retirement ==
    /\ pc = "run" /\ typed /\ pc' = "run" /\ ~typed'
    /\ Len(lines_len) >= 2
    /\ Len(input_chars) = lines_len[1] + lines_len[2]

\* a keystroke at the end of the second line awaits ProcessTyped, which will
\* retire the first line
RetirementDue ==
    /\ pc = "run" /\ typed
    /\ Len(lines_len) = 3
    /\ Len(input_chars) = lines_len[1] + lines_len[2]
    /\ Len(input_chars) <= Len(charset)

\* C1: in every reachable state charset and ids have the same length.
C1_CharsetIdsSameLen == Len(charset) = Len(ids)

\* C1 witness: lines of different widths are buffered in the Words option
\* after option switches, and part of them has been typed.
C1_Witness ==
    /\ AtRest /\ current_typing_option = "Words"
    /\ Len(lines_len) = 3 /\ lines_len[1] # lines_len[2]
    /\ Len(input_chars) > 0 /\ Len(charset) > Len(input_chars)

\* C2 (as claimed): in every reachable state input_chars is no longer than
\* charset.
C2_TypedWithinTarget == Len(input_chars) <= Len(charset)

\* C3: whenever lines_len is not empty the sum of its entries is the length
\* of charset.
C3_LinesLenSum == lines_len # <<>> => Sum(lines_len) = Len(charset)

\* C3 witness: after typing in the Words option the three buffered lines have
\* three different lengths.
C3_Witness ==
    /\ AtRest /\ current_typing_option = "Words" /\ Len(input_chars) > 0
    /\ Len(lines_len) = 3
    /\ Cardinality({lines_len[1], lines_len[2], lines_len[3]}) = 3

\* C4: once a keystroke is processed, every typed position is Correct (1)
\* exactly if the typed character equals the target character.
C4_CorrectIffEqual ==
    AtRest =>
        \A i \in 1..Len(input_chars) :
            /\ i <= Len(charset) /\ i <= Len(ids)
            /\ ids[i] = 1 <=> input_chars[i] = charset[i]

\* C4 witness: a correct and an incorrect position have been typed and
\* processed in the Text option.
C4_Witness ==
    /\ AtRest /\ current_typing_option = "Text"
    /\ Len(input_chars) >= 2
    /\ \E i, j \in 1..Len(input_chars) : ids[i] = 1 /\ ids[j] = 2

\* C5: once an event is processed, a position is Untyped (0) exactly if it is
\* at or after the length of input_chars.
C5_UntypedIffBeyondTyped ==
    AtRest => \A i \in 1..Len(ids) : ids[i] = 0 <=> i > Len(input_chars)

\* C5 witness: typed and untyped positions side by side in Typing mode.
C5_Witness ==
    /\ AtRest /\ current_mode = "Typing"
    /\ Len(input_chars) > 0 /\ Len(ids) > Len(input_chars)
    /\ ids[Len(input_chars)] = 2

\* C6: a retirement leaves exactly three entries in lines_len: the old
\* second, the old third and the character count of the new line.
C6_RetirementShiftsQueue ==
    [][Retirement =>
          /\ Len(lines_len) = 3
          /\ Len(lines_len') = 3
          /\ lines_len'[1] = lines_len[2]
          /\ lines_len'[2] = lines_len[3]
          /\ lines_len'[3] = Len(charset') - (Len(charset) - lines_len[1])]_vars

\* C6 witness: a retirement is due in the Words option with a first line
\* wider than the second.
C6_Witness ==
    /\ RetirementDue /\ current_typing_option = "Words"
    /\ lines_len[1] > lines_len[2]

\* C7 (as claimed): a retirement leaves the lengths of charset and ids as
\* they were, in every option.  The claim is stated for the retirements whose
\* lines, old and new, all hold a token, so that no too-long token of the
\* corpus has a part in a violation.
C7_RetirementKeepsLen ==
    [][(/\ Retirement
        /\ Len(lines_len) = 3 /\ Len(lines_len') = 3
        /\ \A i \in 1..3 : lines_len[i] > 0 /\ lines_len'[i] > 0)
          => Len(charset') = Len(charset) /\ Len(ids') = Len(ids)]_vars

\* C7 (amended): a retirement takes the first line's length off charset and
\* ids and adds the new line's, which leaves them as they were in the Ascii
\* option.
C7_RetirementLen ==
    [][Retirement =>
          /\ Len(charset') = Len(charset) - lines_len[1] + lines_len'[3]
          /\ Len(ids') = Len(ids) - lines_len[1] + lines_len'[3]
          /\ current_typing_option = "Ascii" =>
                Len(charset') = Len(charset) /\ Len(ids') = Len(ids)]_vars

\* C7 witness: a retirement is due in the Ascii option.
C7_Witness ==
    /\ RetirementDue /\ current_typing_option = "Ascii" /\ line_len = 2

\* C8: gen_one_line_of_ascii returns exactly line_len characters, all of
\* ASCII_CHARSET, and changes nothing else.
C8_AsciiLine ==
    [][gen_call' = "ascii" =>
          /\ Len(one_line') = line_len
          /\ \A i \in 1..Len(one_line') : one_line'[i] \in ASCII_CHARSET
          /\ UNCHANGED <<buffers, config, first_text_gen_len, words, text,
                         line_len>>]_vars

\* C8 witness: an Ascii line of the largest width holding two different
\* symbols has been returned.
C8_Witness ==
    /\ gen_call = "ascii" /\ Len(one_line) = MaxGenLineLen
    /\ one_line[1] # one_line[2]

\* C9: the line returned by gen_one_line_of_words or gen_one_line_of_text is
\* never longer than line_len.
C9_LineFits == gen_call \in {"words", "text"} => Len(one_line) <= line_len

\* C9 witness: a Text line of two tokens that fills the width exactly.
C9_Witness ==
    /\ gen_call = "text" /\ Len(one_line) = line_len
    /\ Len(SplitWhitespace(one_line)) = 2

\* the length of the shortest token of a corpus
ShortestToken(corpus) ==
    CHOOSE n \in {Len(corpus[i]) : i \in 1..Len(corpus)} :
        \A i \in 1..Len(corpus) : n <= Len(corpus[i])

\* C10 (as claimed): with a corpus whose shortest token fits the width, the
\* Words and the Text generator return a line that is not empty.
C10_LineNotEmpty ==
    /\ gen_call = "words" /\ ShortestToken(words) <= line_len => one_line # <<>>
    /\ gen_call = "text" /\ ShortestToken(text) <= line_len => one_line # <<>>

\* the Text option is left by 'o' with nothing typed since it was entered
LeavesTextUntyped ==
    /\ InMenu /\ current_typing_option = "Text" /\ text_entry.some
    /\ current_typing_option' = "Ascii"

\* C11 (as claimed): entering the Text option and switching away before
\* anything is typed leaves config.skip_len at the value it had before the
\* entry, also when the three lines generated wrap past the end of text.
\* The claim is stated for the entries whose three lines all hold a token, so
\* that no too-long token of the corpus has a part in a violation.
C11_SwitchAwayRestoresCursor ==
    [][(/\ LeavesTextUntyped
        /\ Len(lines_len) = 3 /\ \A i \in 1..3 : lines_len[i] > 0)
          => config'.skip_len = text_entry.skip_len]_vars

\* the loop has ended and on_exit writes the config
Exits == pc = "run" /\ ~running /\ pc' = "exited"

\* C12 (as claimed): on exit in the Text option the cursor minus the
\* lookahead, floored at 0, is what is written, so that entering the Text
\* option and quitting with nothing typed persists the cursor of before the
\* entry; on exit in the Ascii or Words option the cursor is written as it is.
\* The middle part is stated for the entries whose three lines all hold a
\* token.
C12_ExitPersistsCursor ==
    [][Exits =>
          LET persisted == disk'.config.value.skip_len
          IN /\ disk'.config.state = "ok"
             /\ current_typing_option = "Text" =>
                   persisted = SubtractLookahead(config.skip_len, first_text_gen_len)
             /\ (/\ current_typing_option = "Text" /\ text_entry.some
                 /\ Len(lines_len) = 3 /\ \A i \in 1..3 : lines_len[i] > 0)
                   => persisted = text_entry.skip_len
             /\ current_typing_option \in {"Ascii", "Words"} =>
                   persisted = config.skip_len]_vars

\* C13: in every reachable state config.skip_len is at most Len(text), and
\* once the lines of the Text option are generated it is below Len(text):
\* consumption that reaches the end has wrapped it to 0.
C13_CursorWithinCorpus ==
    /\ config.skip_len >= 0
    /\ config.skip_len <= Len(text)
    /\ (pc = "run" /\ current_typing_option = "Text" /\ lines_len # <<>>)
          => config.skip_len < Len(text)

\* C13 witness: in the Text option the lines generated at the entry have
\* consumed more tokens than text holds, and characters have been typed.
C13_Witness ==
    /\ AtRest /\ current_typing_option = "Text" /\ current_mode = "Typing"
    /\ first_text_gen_len > Len(text)
    /\ Len(input_chars) > 0

\* the single-space join of the k tokens of txt that follow index c circularly
CircularJoin(txt, c, k) ==
    Join([i \in 1..k |-> txt[((c + i - 1) % Len(txt)) + 1]])

\* C14: when gen_one_line_of_text returns a line of k tokens from the cursor c
\* over a corpus of L > 0 tokens, the cursor is then (c + k) mod L and the
\* line is the single-space join of the k tokens that follow c circularly.
C14_TextLineConsumes ==
    [][(gen_call' = "text" /\ text # <<>>) =>
          LET k == Len(SplitWhitespace(one_line'))
              c == config.skip_len
          IN /\ config'.skip_len = (c + k) % Len(text)
             /\ one_line' = CircularJoin(text, c, k)]_vars

\* C14 witness: a Text line of two tokens or more has been returned whose
\* tokens run past the end of the corpus (the cursor is below their number).
C14_Witness ==
    /\ gen_call = "text"
    /\ Len(SplitWhitespace(one_line)) >= 2
    /\ config.skip_len > 0
    /\ config.skip_len < Len(SplitWhitespace(one_line))

\* "This is a sample"
SampleLine1 ==
    <<"T", "h", "i", "s", " ", "i", "s", " ", "a", " ", "s", "a", "m", "p",
      "l", "e">>

\* "text for testing"
SampleLine2 ==
    <<"t", "e", "x", "t", " ", "f", "o", "r", " ", "t", "e", "s", "t", "i",
      "n", "g">>

\* "purposes. This is a"
SampleLine3 ==
    <<"p", "u", "r", "p", "o", "s", "e", "s", ".", " ", "T", "h", "i", "s",
      " ", "i", "s", " ", "a">>

\* C15: at width 20 over the 8 tokens of "This is a sample text for testing
\* purposes." gen_one_line_of_text returns "This is a sample" from cursor 0
\* (cursor 4), then "text for testing" (cursor 7), then "purposes. This is a"
\* (cursor wrapped to 3).
C15_SampleTextLines ==
    [][(gen_call' = "text" /\ text = SampleText /\ line_len = SampleLineLen) =>
          /\ Len(text) = 8
          /\ config.skip_len = 0 =>
                one_line' = SampleLine1 /\ config'.skip_len = 4
          /\ config.skip_len = 4 =>
                one_line' = SampleLine2 /\ config'.skip_len = 7
          /\ config.skip_len = 7 =>
                one_line' = SampleLine3 /\ config'.skip_len = 3]_vars

\* C15 witness: the third line of the scenario has been returned.
C15_Witness ==
    /\ gen_call = "text" /\ text = SampleText /\ line_len = SampleLineLen
    /\ one_line = SampleLine3
    /\ config.skip_len = 3

\* at width n two tokens fit each of the lines that start at the tokens 0, 2
\* and 4 of the five tokens of txt, and three do not
TwoTokensFit(txt, n) ==
    /\ Len(txt) = 5
    /\ \A c \in {0, 2, 4} :
          /\ Len(CircularJoin(txt, c, 2)) <= n
          /\ Len(CircularJoin(txt, c, 3)) > n

\* C16: over five tokens, at a width where exactly two tokens fit a line,
\* gen_one_line_of_text returns the tokens 0 and 1 from cursor 0, then 2 and
\* 3, then 4 and 0, and leaves the cursor at 1.
C16_FiveTokensWrap ==
    [][(gen_call' = "text" /\ TwoTokensFit(text, line_len)) =>
          /\ config.skip_len = 0 =>
                /\ one_line' = text[1] \o <<" ">> \o text[2]
                /\ config'.skip_len = 2
          /\ config.skip_len = 2 =>
                /\ one_line' = text[3] \o <<" ">> \o text[4]
                /\ config'.skip_len = 4
          /\ config.skip_len = 4 =>
                /\ one_line' = text[5] \o <<" ">> \o text[1]
                /\ config'.skip_len = 1]_vars

\* C16 witness: the third line, of the last and the first token, which
\* differ, has been returned and the cursor is at 1.
C16_Witness ==
    /\ gen_call = "text" /\ TwoTokensFit(text, line_len)
    /\ text[5] # text[1]
    /\ one_line = text[5] \o <<" ">> \o text[1]
    /\ config.skip_len = 1

\* this step is the loop processing the last keystroke
ProcessesKeystroke == pc = "run" /\ typed /\ pc' = "run" /\ ~typed'

\* C17: processing the keystroke at position p adds exactly 1 to the ledger
\* entry of the expected character charset[p] (created at 1 if absent) and
\* changes no other entry if the typed character differs and save_mistyped is
\* set; otherwise it leaves the ledger as it is.
C17_LedgerCountsExpected ==
    [][ProcessesKeystroke =>
          LET p == Len(input_chars)
              expected == charset[p]
              old == config.mistyped_chars
              new == config'.mistyped_chars
          IN IF input_chars[p] # expected /\ config.save_mistyped
             THEN /\ DOMAIN new = DOMAIN old \cup {expected}
                  /\ new[expected] =
                        IF expected \in DOMAIN old THEN old[expected] + 1 ELSE 1
                  /\ \A k \in DOMAIN old \ {expected} : new[k] = old[k]
             ELSE new = old]_vars

\* C17 witness: three characters are typed of which the second, where "b" was
\* expected, is wrong, and the ledger is exactly {b: 1}.
C17_Witness ==
    /\ AtRest /\ config.save_mistyped
    /\ Len(input_chars) = 3 /\ Len(ids) >= 3
    /\ ids[1] = 1 /\ ids[2] = 2 /\ ids[3] = 1
    /\ charset[2] = "b" /\ input_chars[2] = "a"
    /\ DOMAIN config.mistyped_chars = {"b"}
    /\ config.mistyped_chars["b"] = 1

\* every key of the ledger old is a key of new, with a count that is not less
NotLess(old, new) ==
    \A k \in DOMAIN old : k \in DOMAIN new /\ new[k] >= old[k]

\* C18: no step of a session lowers a count of the ledger or removes a key,
\* except 'r' in Menu mode, which empties it; a count grows only while
\* save_mistyped is set; Backspace leaves the ledger as it is.
C18_LedgerOnlyGrows ==
    [][LET old == config.mistyped_chars
           new == config'.mistyped_chars
       IN /\ NotLess(old, new) \/ (InMenu /\ new = EmptyMap)
          /\ (pc = "run" /\ NotLess(old, new) /\ new # old) => config.save_mistyped
          /\ (InTyping /\ Len(input_chars') < Len(input_chars)) => new = old]_vars

\* C18 witness: two mistakes are counted although every typed character has
\* been removed again and counting is now switched off.
C18_Witness ==
    /\ AtRest /\ current_mode = "Typing" /\ ~config.save_mistyped
    /\ input_chars = <<>> /\ Len(lines_len) = 3
    /\ \A i \in 1..Len(ids) : ids[i] = 0
    /\ LedgerTotal(config.mistyped_chars) = 2

\* C19: no key pressed in Typing mode, Backspace on an empty input_chars
\* included, aborts the program; a Backspace on a non-empty input_chars
\* removes its last character and sets that position of ids to 0, and leaves
\* the rest of ids, charset, lines_len, the ledger and the cursor as they are.
C19_Backspace ==
    [][InTyping =>
          /\ pc' = "run"
          /\ Len(input_chars') < Len(input_chars) =>
                LET position == Len(input_chars)
                IN /\ position > 0 /\ position <= Len(ids)
                   /\ input_chars' = SubSeq(input_chars, 1, position - 1)
                   /\ ids' = [ids EXCEPT ![position] = 0]
                   /\ UNCHANGED <<charset, lines_len, config, typed,
                                  first_text_gen_len>>]_vars

\* C19 witness: Backspace can be pressed on a mistyped character that follows
\* a correct one, with a mistake counted in the ledger.
C19_Witness ==
    /\ InTyping /\ Len(input_chars) = 2
    /\ ids[1] = 1 /\ ids[2] = 2
    /\ LedgerTotal(config.mistyped_chars) = 1

\* the active option is Words or Text and its corpus is empty
EmptyActiveCorpus ==
    \/ current_typing_option = "Words" /\ words = <<>>
    \/ current_typing_option = "Text" /\ text = <<>>

\* C20: the program is never in Typing mode, and never has a keystroke to
\* process, while the corpus of the active option is empty; no key pressed in
\* Menu mode then changes the mode.
C20_NoTypingOnEmptyCorpus ==
    /\ [](EmptyActiveCorpus => current_mode = "Menu" /\ ~typed)
    /\ [][(InMenu /\ EmptyActiveCorpus) => current_mode' = "Menu"]_vars

\* C20 witness: the Text option is active in Menu mode with no text, where
\* 'i' is refused.
C20_Witness ==
    /\ InMenu /\ current_typing_option = "Text" /\ text = <<>>
    /\ charset = <<>>

\* the option that follows o in the cycle of switch_typing_option
NextOption(o) ==
    CASE o = "Ascii" -> "Words"
      [] o = "Words" -> "Text"
      [] o = "Text" -> "Ascii"

\* C21: the typing option changes only by a switch in Menu mode, and then to
\* the next option of the cycle Ascii -> Words -> Text -> Ascii, whether or
\* not a corpus is empty.
C21_OptionCycle ==
    [][(pc' = "run" /\ current_typing_option' # current_typing_option) =>
          /\ InMenu
          /\ current_typing_option' = NextOption(current_typing_option)]_vars

\* C21 witness: the Ascii option is active again after the Text option was
\* entered and left (the cursor read from the config file has been given
\* back to 0).
C21_Witness ==
    /\ pc = "run" /\ current_typing_option = "Ascii"
    /\ text # <<>>
    /\ disk.config.state = "ok" /\ disk.config.value.skip_len = 1
    /\ config.skip_len = 0

\* a step that completes a switch of the typing option
OptionSwitched == pc' = "run" /\ current_typing_option' # current_typing_option

\* C22: right after a switch of the typing option nothing is typed and only
\* new content is buffered: three lines, every id 0 (each line line_len wide
\* for Ascii) when the new option has a corpus, and four empty buffers when
\* it has none; the buffers are empty whenever the active option has no
\* corpus.
C22_SwitchRepopulates ==
    /\ [](pc = "run" /\ EmptyActiveCorpus =>
            charset = <<>> /\ input_chars = <<>> /\ ids = <<>> /\ lines_len = <<>>)
    /\ [][OptionSwitched =>
            /\ input_chars' = <<>>
            /\ Len(charset') = Sum(lines_len')
            /\ ids' = Zeros(Len(charset'))
            /\ IF EmptyActiveCorpus'
               THEN lines_len' = <<>>
               ELSE Len(lines_len') = 3
            /\ current_typing_option' = "Ascii" =>
                  lines_len' = <<line_len, line_len, line_len>>]_vars

\* C22 witness: the Text option was entered by a switch, after mistakes were
\* typed in an earlier option, and holds three untyped lines.
C22_Witness ==
    /\ InMenu /\ current_typing_option = "Text" /\ text_entry.some
    /\ LedgerTotal(config.mistyped_chars) > 0
    /\ input_chars = <<>> /\ Len(lines_len) = 3

\* the i-th buffered line, cut out of the character buffer cs by the queue ll
LineAt(cs, ll, i) ==
    SubSeq(cs, Sum(SubSeq(ll, 1, i - 1)) + 1, Sum(SubSeq(ll, 1, i)))

\* the number of whitespace-separated tokens of the buffered lines
BufferedTokens(cs, ll) ==
    Sum([i \in 1..Len(ll) |-> Len(SplitWhitespace(LineAt(cs, ll, i)))])

\* a step of the running program that changes a corpus or a use_default flag
DefaultCorpusChange ==
    /\ pc = "run"
    /\ \/ words' # words
       \/ text' # text
       \/ config'.use_default_word_set # config.use_default_word_set
       \/ config'.use_default_text_set # config.use_default_text_set

\* C23: a corpus or a use_default flag changes only in Menu mode while the
\* active option is Words or Text with an empty corpus: the corpus becomes
\* the built-in default, the matching flag becomes true and three lines are
\* buffered, whose tokens are added to first_text_gen_len in the Text
\* option; Enter in the Ascii option or with a corpus loaded changes nothing.
C23_UseDefaultCorpus ==
    /\ [][DefaultCorpusChange =>
            /\ InMenu /\ EmptyActiveCorpus
            /\ pc' = "run"
            /\ Len(lines_len') = 3
            /\ IF current_typing_option = "Words"
               THEN /\ words' = default_words /\ text' = text
                    /\ config' = [config EXCEPT !.use_default_word_set = TRUE]
                    /\ first_text_gen_len' = first_text_gen_len
               ELSE /\ text' = default_text /\ words' = words
                    /\ config' = [config EXCEPT
                                    !.use_default_text_set = TRUE,
                                    !.skip_len = config'.skip_len]
                    /\ first_text_gen_len' =
                          first_text_gen_len + BufferedTokens(charset', lines_len')]_vars
    /\ [][(MenuEnter /\ ~EmptyActiveCorpus) =>
            UNCHANGED <<words, text, config, buffers, first_text_gen_len>>]_vars

\* C23 witness: the default text was taken in the Text option and the tokens
\* of its three lines are counted.
C23_Witness ==
    /\ pc = "run" /\ current_typing_option = "Text"
    /\ text = default_text /\ config.use_default_text_set
    /\ Len(lines_len) = 3
    /\ first_text_gen_len = 3

\* C24: while the program runs, lines_len holds 3 entries or none, and none
\* only while the active option is Words or Text with an empty corpus.
C24_ThreeLinesOrNone ==
    pc = "run" =>
        /\ Len(lines_len) \in {0, 3}
        /\ Len(lines_len) = 0 => EmptyActiveCorpus

\* C24 witness: the default text after a retirement: its first line is gone
\* and a fourth line was pushed.
C24_Witness ==
    /\ pc = "run" /\ current_typing_option = "Text" /\ text = default_text
    /\ charset = <<"b", "b", "a">>
    /\ Len(lines_len) = 3

\* a call of a show_* method: a flag is raised and the timer starts now
ShowCalled ==
    /\ notifications'.time_count = [some |-> TRUE, at |-> now]
    /\ \/ notifications'.mode /\ ~notifications.mode
       \/ notifications'.option /\ ~notifications.option
       \/ notifications'.toggle /\ ~notifications.toggle
       \/ notifications'.mistyped /\ ~notifications.mistyped
       \/ notifications'.clear_mistyped /\ ~notifications.clear_mistyped

\* C25: on_tick returns false and changes nothing while no timer runs or at
\* most 2 seconds have elapsed since the last trigger; after more than 2
\* seconds it clears the five flags and the timer and returns true; a
\* cleared timer starts again only by a show_* call.
C25_OnTick ==
    /\ [][CallOnTick =>
            IF \/ ~notifications.time_count.some
               \/ now - notifications.time_count.at <= 2
            THEN on_tick_ret' = "false" /\ notifications' = notifications
            ELSE /\ on_tick_ret' = "true"
                 /\ notifications' = NotificationsNew]_vars
    /\ [](on_tick_ret = "true" => notifications = NotificationsNew)
    /\ [][(~notifications.time_count.some /\ notifications'.time_count.some)
            => ShowCalled]_vars

\* C25 witness: on_tick has returned true, more than 2 seconds after a
\* notification was shown.
C25_Witness ==
    /\ pc = "notif" /\ on_tick_ret = "true" /\ now = 3

\* C26: get_sorted_mistakes returns every entry of the ledger exactly once,
\* a larger count before a smaller one and, of two equal counts, the smaller
\* character first; the empty ledger gives the empty list.
C26_SortedMistakes ==
    sorted_mistakes.called =>
        LET m == config.mistyped_chars
            l == sorted_mistakes.list
        IN /\ Len(l) = Cardinality(DOMAIN m)
           /\ \A k \in DOMAIN m : \E i \in 1..Len(l) : l[i] = <<k, m[k]>>
           /\ \A i, j \in 1..Len(l) :
                 i < j => \/ l[i][2] > l[j][2]
                          \/ l[i][2] = l[j][2] /\ CharOrd[l[i][1]] < CharOrd[l[j][1]]
           /\ m = EmptyMap => l = <<>>

\* C26 witness: a ledger with two equal counts and a smaller one, sorted.
C26_Witness ==
    /\ sorted_mistakes.called
    /\ sorted_mistakes.list = <<<<"b", 2>>, <<"c", 2>>, <<"a", 1>>>>

\* the text the stored cursor counts in is the text of this session: the
\* built-in text, flagged with still no token in text.txt, or the tokens of
\* text.txt, not flagged
SourceUnchanged(stored, file_text) ==
    stored.use_default_text_set <=> file_text = <<>>

\* C27: with the config directory located, setup always ends (no error)
\* with the hash of the current text.txt stored; if the stored hash differed from it the cursor is 0; if the
\* hashes are equal and the source of the text is unchanged the cursor is
\* the stored one.
C27_HashMismatchResetsCursor ==
    [][(pc = "new" /\ disk.home) =>
         LET stored == LoadConfig(disk)
             current == CalculateTextTxtHash(disk.text_txt)
         IN /\ pc' = "run"
            /\ config'.last_text_txt_hash = current
            /\ stored.last_text_txt_hash # current => config'.skip_len = 0
            /\ (/\ stored.last_text_txt_hash = current
                /\ SourceUnchanged(stored, ReadItems(disk.text_txt)))
                  => config'.skip_len = stored.skip_len]_vars

\* C27 witness: text.txt was changed since the config was stored with the
\* cursor at 2, and setup has reset the cursor.
C27_Witness ==
    /\ pc = "run"
    /\ disk.text_txt = OtherTxt
    /\ disk.config.state = "ok"
    /\ disk.config.value.last_text_txt_hash = CalculateTextTxtHash(TextTxt)
    /\ disk.config.value.skip_len = 2
    /\ config.skip_len = 0
    /\ config.last_text_txt_hash = CalculateTextTxtHash(OtherTxt)

\* C28: once the loop has ended on_exit completes and the program ends,
\* whether or not the config could be saved; Enter on the first boot page
\* leaves the loop running whether or not the config could be saved.
C28_SaveFailureNeverBlocks ==
    /\ [][(pc = "run" /\ ~running) => pc' = "exited"]_vars
    /\ [][(AwaitsEvent /\ config.first_boot /\ ~config'.first_boot) =>
            /\ pc' = "run" /\ running'
            /\ IF disk.writable
               THEN disk'.config = [state |-> "ok", value |-> config']
               ELSE disk' = disk]_vars
    /\ ((pc = "run" /\ ~running) ~> pc = "exited")

\* C28 witness: the program has ended although neither the save of the first
\* boot confirmation nor the save at exit reached the config file.
C28_Witness ==
    /\ pc = "exited"
    /\ ~disk.writable
    /\ disk.config.state = "ok" /\ disk.config.value.first_boot
    /\ ~config.first_boot

\* a step that leaves the Text option: 'o' in the Text option, or on_exit
\* while the Text option is active
LeavesText ==
    /\ pc = "run" /\ current_typing_option = "Text"
    /\ \/ pc' = "run" /\ current_typing_option' = "Ascii"
       \/ pc' = "exited"

\* C29: when the Text option is left, the cursor goes back by the number of
\* tokens of the three buffered lines.  (Stated for buffers of three
\* non-empty lines and a cursor that is at least as large as the counter and
\* as the tokens of the buffered lines, so that neither an empty line nor the
\* floor at 0 is involved.)
C29_LeaveGivesBackBufferedLines ==
    [][(/\ LeavesText
        /\ Len(lines_len) = 3
        /\ \A i \in 1..3 : lines_len[i] > 0
        /\ config.skip_len >= first_text_gen_len
        /\ config.skip_len >= BufferedTokens(charset, lines_len))
          => config'.skip_len =
                config.skip_len - BufferedTokens(charset, lines_len)]_vars

EntersText ==
    /\ current_typing_option' = "Text"
    /\ \/ current_typing_option = "Words"
       \/ current_typing_option = "Text" /\ text = <<>> /\ text' # <<>>

OtherEvent ==
    /\ pc = "run" /\ ~typed /\ pc' = "run"
    /\ current_typing_option' = current_typing_option
    /\ ~DefaultCorpusChange

\* C31 (as claimed): no state at rest has len(input_chars) = lines_len[0] +
\* lines_len[1]; processing a keystroke retires the first line exactly when
\* that equality holds and otherwise leaves the buffers' content in place;
\* no other event retires a line.
C31_RetirementAtEndOfSecondLine ==
    /\ [](AtRest /\ Len(lines_len) = 3 =>
            Len(input_chars) # lines_len[1] + lines_len[2])
    /\ [][ProcessesKeystroke =>
            IF Len(input_chars) = lines_len[1] + lines_len[2]
            THEN /\ input_chars' = DropFront(input_chars, lines_len[1])
                 /\ Len(lines_len') = 3
                 /\ lines_len'[1] = lines_len[2]
                 /\ lines_len'[2] = lines_len[3]
            ELSE /\ input_chars' = input_chars
                 /\ lines_len' = lines_len
                 /\ charset' = charset]_vars
    /\ [][OtherEvent => lines_len' = lines_len /\ charset' = charset]_vars

\* C32: a retirement pops the first lines_len[0] elements of charset,
\* input_chars and ids and pushes the new line with ids 0: what is kept is
\* the old content in the old order (the id of the keystroke just processed
\* being the one update_id_field gave it), and input_chars is as long as the
\* old second line.
C32_RetirementShiftsBuffers ==
    [][(Retirement /\ Len(lines_len) = 3) =>
          LET n == lines_len[1]
              keep == Len(charset) - n
              new == lines_len'[3]
              pos == Len(input_chars)
          IN /\ Len(charset') = keep + new
             /\ Len(ids') = keep + new
             /\ \A i \in 1..keep : charset'[i] = charset[i + n]
             /\ input_chars' = DropFront(input_chars, n)
             /\ Len(input_chars') = lines_len[2]
             /\ \A i \in 1..keep : i + n # pos => ids'[i] = ids[i + n]
             /\ pos > n => ids'[pos - n] =
                              IF input_chars[pos] = charset[pos] THEN 1 ELSE 2
             /\ \A i \in (keep + 1)..(keep + new) : ids'[i] = 0]_vars

\* C32 witness: the default text after a retirement: the wrong character
\* typed for the second line and its id are now at the head.
C32_Witness ==
    /\ AtRest /\ current_typing_option = "Text" /\ text = default_text
    /\ charset = <<"b", "b", "a">>
    /\ input_chars = <<"a">>
    /\ ids = <<2, 0, 0>>

\* C33 (as claimed): setup always completes; when the config cannot be
\* located, read or parsed it goes on from the default config, and a words
\* or text file that cannot be read gives no token (the corpus is then empty
\* unless the built-in one is flagged).
C33_LoadFailuresRecovered ==
    [][pc = "new" =>
         /\ pc' = "run"
         /\ (~disk.home \/ disk.config.state # "ok") =>
               config' = SetupConfig(DefaultConfig, ReadItems(disk.words_txt),
                                     ReadItems(disk.text_txt),
                                     CalculateTextTxtHash(disk.text_txt))
         /\ (~disk.words_txt.exists /\ ~config'.use_default_word_set) =>
               words' = <<>>
         /\ (~disk.text_txt.exists /\ ~config'.use_default_text_set) =>
               text' = <<>>]_vars

\* C34: after setup the tokens of text.txt, if there are any, are the text,
\* the flag of the built-in text is off, and the cursor is 0 if the flag was
\* on; with no token and the flag off the text is empty and the cursor 0;
\* with no token and the flag on the text is the built-in one; tokens in
\* words.txt are the words and switch the flag of the built-in words off.
C34_FileBeforeDefault ==
    [][(pc = "new" /\ disk.home) =>
         LET stored == LoadConfig(disk)
             file_text == ReadItems(disk.text_txt)
             file_words == ReadItems(disk.words_txt)
         IN /\ file_text # <<>> =>
                  /\ text' = file_text
                  /\ ~config'.use_default_text_set
                  /\ stored.use_default_text_set => config'.skip_len = 0
            /\ (file_text = <<>> /\ ~stored.use_default_text_set) =>
                  /\ text' = <<>>
                  /\ config'.skip_len = 0
            /\ (file_text = <<>> /\ stored.use_default_text_set) =>
                  /\ text' = default_text
                  /\ config'.use_default_text_set
            /\ file_words # <<>> =>
                  /\ words' = file_words
                  /\ ~config'.use_default_word_set]_vars

\* C34 witness: the stored config flagged the built-in text with the cursor
\* at 2, a text.txt with tokens was found, and setup took the file.
C34_Witness ==
    /\ pc = "run"
    /\ disk.config.state = "ok"
    /\ disk.config.value.use_default_text_set
    /\ disk.config.value.skip_len = 2
    /\ disk.text_txt = TextTxt
    /\ text = ReadItems(TextTxt)
    /\ ~config.use_default_text_set
    /\ config.skip_len = 0

\* C35: for every non-empty corpus, cursor and width the loops of
\* gen_one_line_of_words and gen_one_line_of_text return: the vector never
\* holds more tokens than the width has characters, and the call comes back.
C35_GeneratorsTerminate ==
    /\ [](pc \in {"loop", "returned"} /\ Len(one_line) <= line_len)
    /\ <>(pc = "returned")

\* C35 witness: gen_one_line_of_text has returned a line with more tokens
\* than the text has: the whole text fits the width and was repeated.
C35_Witness ==
    /\ pc = "returned" /\ gen_call = "text"
    /\ Len(Join(text)) <= line_len
    /\ Len(one_line) > Len(text)

\* C36 (as claimed): after every processed keystroke the typed characters
\* are fewer than the characters of the first two buffered lines, in every
\* option and with every corpus Typing mode can be entered with.
C36_TypedBeforeThirdLine ==
    [][ProcessesKeystroke =>
          /\ Len(lines_len') = 3
          /\ Len(input_chars') < lines_len'[1] + lines_len'[2]]_vars

\* the step switches between Menu and Typing mode: 'i' or Esc
ModeSwitched == pc = "run" /\ pc' = "run" /\ current_mode' # current_mode

\* C37: a switch between Menu and Typing mode leaves charset, input_chars,
\* ids, lines_len, the typing option, config.skip_len, first_text_gen_len
\* and config.mistyped_chars as they are, and the typing option changes only
\* on a step taken in Menu mode that stays in Menu mode.
C37_ModeSwitchKeepsProgress ==
    /\ [][ModeSwitched =>
            /\ buffers' = buffers
            /\ current_typing_option' = current_typing_option
            /\ config'.skip_len = config.skip_len
            /\ first_text_gen_len' = first_text_gen_len
            /\ config'.mistyped_chars = config.mistyped_chars]_vars
    /\ [][current_typing_option' # current_typing_option =>
            current_mode = "Menu" /\ current_mode' = "Menu"]_vars

\* C37 witness: Menu mode in the Text option with typed characters, a counted
\* mistake and the lookahead counter set: Typing mode was entered and left
\* after the last option switch.
C37_Witness ==
    /\ InMenu /\ current_typing_option = "Text"
    /\ Len(input_chars) > 0
    /\ first_text_gen_len > 0
    /\ LedgerTotal(config.mistyped_chars) > 0

\* the first boot page, the help page or the most mistyped page is shown
PageShown == pc = "run" /\ (config.first_boot \/ show_help \/ show_mistyped)

\* C38: a step taken while a page is shown changes none of the typing
\* buffers, typing option, mode, ledger, cursor and running flag; a page
\* closes only by a step of its own dismiss handler; the help page and the
\* most mistyped page are never shown together, and a step that opens one
\* of them is taken in Menu mode with no page shown.
C38_PagesTakeAllInput ==
    /\ [][PageShown =>
            /\ pc' = "run"
            /\ buffers' = buffers
            /\ current_typing_option' = current_typing_option
            /\ current_mode' = current_mode
            /\ config'.mistyped_chars = config.mistyped_chars
            /\ config'.skip_len = config.skip_len
            /\ running' = running]_vars
    /\ [][(pc = "run" /\ config.first_boot /\ ~config'.first_boot)
            => FirstBootEnter]_vars
    /\ [][(show_help /\ ~show_help') => HelpDismiss]_vars
    /\ [][(show_mistyped /\ ~show_mistyped') => MistypedDismiss]_vars
    /\ [](~(show_help /\ show_mistyped))
    /\ [][((~show_help /\ show_help') \/ (~show_mistyped /\ show_mistyped'))
            => InMenu]_vars

\* C38 witness: the most mistyped page is shown over typing progress with a
\* counted mistake.
C38_Witness ==
    /\ PageShown /\ show_mistyped
    /\ Len(input_chars) > 0
    /\ LedgerTotal(config.mistyped_chars) > 0

\* C39: config.skip_len is changed only by the steps that generate lines of
\* the Text option (entering it, the default text, a retirement in it) and
\* by the steps that leave it ('o' in the Text option, on_exit in the Text
\* option); no step taken in the Ascii or Words option that stays out of the
\* Text option changes it, the switch Ascii -> Words included.
C39_CursorChangesOnlyInText ==
    /\ [][(pc = "run" /\ config'.skip_len # config.skip_len) =>
            \/ EntersText
            \/ Retirement /\ current_typing_option = "Text"
            \/ LeavesText]_vars
    /\ [][(pc = "run" /\ current_typing_option \in {"Ascii", "Words"}
              /\ current_typing_option' # "Text")
            => config'.skip_len = config.skip_len]_vars

\* C39 witness: in the Words option characters have been typed and a mistake
\* counted, and the cursor read from the config file is still in place.
C39_Witness ==
    /\ AtRest /\ current_typing_option = "Words"
    /\ disk.config.state = "ok" /\ disk.config.value.skip_len > 0
    /\ config.skip_len = disk.config.value.skip_len
    /\ Len(input_chars) > 0
    /\ LedgerTotal(config.mistyped_chars) > 0

\* C40: whenever the active option is not Text first_text_gen_len is 0; it
\* leaves 0 only on a step that generates the first three lines of the Text
\* option (the switch from Words, or the default text), and every step that
\* switches away from the Text option sets it to 0.
C40_CounterZeroOutsideText ==
    /\ [](current_typing_option # "Text" => first_text_gen_len = 0)
    /\ [][(first_text_gen_len = 0 /\ first_text_gen_len' # 0)
            => pc = "run" /\ EntersText]_vars
    /\ [][(current_typing_option = "Text" /\ current_typing_option' # "Text")
            => first_text_gen_len' = 0]_vars

\* C40 witness: the Words option is active with the counter at 0 after the
\* Text option has been visited: the cursor is no longer the one read from
\* the config file.
C40_Witness ==
    /\ AtRest /\ current_typing_option = "Words"
    /\ first_text_gen_len = 0
    /\ text # <<>>
    /\ disk.config.state = "ok"
    /\ config.skip_len # disk.config.value.skip_len

====
